---- MODULE Spec2Model ----
(***************************************************************************)
(* Verification model of the Alx_DjangoLearnLab projects.                  *)
(*                                                                         *)
(*   SpecLikes    social_media_api: likes on posts and comments and the    *)
(*                notifications they create (posts/views.py,               *)
(*                posts/models.py, notifications/models.py)                *)
(*   SpecBooks    advanced-api-project: the Book and Author endpoints      *)
(*                (api/views.py, api/serializers.py, api/models.py)        *)
(*   SpecProfiles django-models, advanced_features_and_security and        *)
(*                django_blog: the post_save receivers that keep one       *)
(*                profile per user (models.py of each project)             *)
(*   SpecNotifications  social_media_api: the notification views           *)
(*                (notifications/views.py)                                 *)
(*   SpecFeed     social_media_api: follow, unfollow, posts and the feeds  *)
(*                (accounts/views.py, posts/views.py)                      *)
(*   SpecConcurrent  social_media_api: follow and like requests served by  *)
(*                several workers at once                                  *)
(*   SpecApiProject  api_project: BookList and BookViewSet (api/views.py)  *)
(*   SpecRoles    django-models, advanced_features_and_security: the       *)
(*                role-protected views (relationship_app/views.py)         *)
(*   SpecApi      advanced-api-project: authors and books together         *)
(*                                                                         *)
(* Database tables are sets of rows; every row carries its primary key,    *)
(* so that two rows with equal column values are two rows.                 *)
(***************************************************************************)
EXTENDS Integers, Sequences, FiniteSets, TLC

VARIABLES
    \* ---- social_media_api ----
    posts,            \* Post table: post id -> author
    comments,         \* Comment table: comment id -> [post, author]
    likes,            \* Like table: rows [id, user, content_type, object_id]
    notifications,    \* Notification table
    nextLikeId,       \* next primary key of Like
    nextNotifId,      \* next primary key of Notification
    smResp,           \* the response to the last like / unlike request
    following,        \* CustomUser.followers table: pairs <<follower, followed>>
    postCreatedAt,    \* Post.created_at: post id -> time
    clock,            \* the time of the database server
    snResp,           \* the response to the last follow, notification or feed request
    \* ---- advanced-api-project ----
    authors,          \* Author table: rows [id, name]
    books,            \* Book table: rows [id, title, publication_year, author]
    nextAuthorId,     \* next primary key of Author
    nextBookId,       \* next primary key of Book
    apiReq,           \* the last request to the api app
    apiResp,          \* and the response to it
    \* ---- api_project ----
    apBooks,          \* Book table: rows [id, title, author]
    apNextBookId,     \* next primary key of Book
    apResp,           \* the response to the last api_project request
    \* ---- the projects with a per-user profile ----
    pfProject,        \* the project whose database the tables below are
    pfUsers,          \* User table: the primary keys
    pfProfiles,       \* UserProfile / Profile table: rows [id, user, role]
    pfNextUserId,     \* next primary key of User
    pfNextProfileId,  \* next primary key of the profile model
    pfOut,            \* the outcome of the last operation
    pfResp,           \* the response to the last request to a role-protected view
    \* ---- social_media_api, requests served by several workers ----
    requests          \* the requests in flight: slot -> [view, user, target, pc, status, error]

smVars == <<posts, comments, likes, notifications, nextLikeId, nextNotifId, smResp>>

snVars == <<following, postCreatedAt, clock, snResp>>

apiVars == <<authors, books, nextAuthorId, nextBookId, apiReq, apiResp>>

apVars == <<apBooks, apNextBookId, apResp>>

pfVars == <<pfProject, pfUsers, pfProfiles, pfNextUserId, pfNextProfileId, pfOut, pfResp>>

rqVars == <<requests>>

vars == <<smVars, snVars, apiVars, apVars, pfVars, rqVars>>

----------------------------------------------------------------------------
(***************************************************************************)
(* social_media_api: likes                                                 *)
(***************************************************************************)

\* Bounds on the primary keys handed out in one behaviour.
MaxLikeId == 3
MaxNotifId == 2

\* The users, the post (by user1) and the comment (by user2) of the fixture
\* (tests_likes.py setUp).
Users == {"user1", "user2"}
Anonymous == "anonymous"
PostIds == {1}
CommentIds == {1}
NoSuchId == 99

ContentTypes == {"post", "comment"}

\* rest_framework.permissions.IsAuthenticated on every like view.
IsAuthenticated(user) == user \in Users

\* Like.objects.filter(user=..., content_type=..., object_id=...) as the like
\* views issue it before creating.
LikeFilter_anyType(rows, user, content_type, object_id) ==
    {l \in rows : l.user = user /\ l.content_type # content_type
                    /\ l.object_id = object_id}

LikeFilter(rows, user, content_type, object_id) ==
    {l \in rows : l.user = user /\ l.content_type = content_type
                    /\ l.object_id = object_id}

\* Like.Meta.unique_together = ['user', 'content_type', 'object_id']: TRUE
\* when the database accepts the insert of a row with these columns.
UniqueTogetherLike_none(rows, user, content_type, object_id) == TRUE

UniqueTogetherLike(rows, user, content_type, object_id) ==
    ~ \E l \in rows : /\ l.user = user
                      /\ l.content_type = content_type
                      /\ l.object_id = object_id

\* Post.like_count / Comment.like_count.
LikeCount(rows, content_type, object_id) ==
    Cardinality({l \in rows : l.content_type = content_type
                               /\ l.object_id = object_id})

\* The queryset UnlikePostView / UnlikeCommentView delete.
UnlikeFilter_allUsers(rows, user, content_type, object_id) ==
    {l \in rows : l.content_type = content_type /\ l.object_id = object_id}

UnlikeFilter(rows, user, content_type, object_id) ==
    {l \in rows : l.user = user /\ l.content_type = content_type
                    /\ l.object_id = object_id}

\* "if post.author != request.user" before the notification is created.
NotifiesAuthor_always(author, user) == TRUE

NotifiesAuthor(author, user) == author # user

\* Notification.create_like_notification: the verb depends on the target's
\* content type.
LikeVerb(content_type) ==
    IF content_type = "post" THEN "liked your post"
    ELSE IF content_type = "comment" THEN "liked your comment"
    ELSE "liked your content"

create_like_notification(id, recipient, actor, content_type, object_id) ==
    [id |-> id, recipient |-> recipient, actor |-> actor,
     verb |-> LikeVerb(content_type), notification_type |-> "like",
     target_content_type |-> content_type, target_object_id |-> object_id,
     read |-> FALSE]

SmResponse(op, user, target, status, like_id, like_count, error) ==
    [op |-> op, user |-> user, target |-> target, status |-> status,
     like_id |-> like_id, like_count |-> like_count, error |-> error]

\* A request that IsAuthenticated refuses: 401 or 403 depending on the
\* authentication classes of the deployment; nothing is written.
SmDenied(op, user, target) ==
    /\ \E s \in {401, 403} :
          smResp' = SmResponse(op, user, target, s, 0, 0, "not authenticated")
    /\ UNCHANGED <<posts, comments, likes, notifications, nextLikeId, nextNotifId>>

\* The common body of LikePostView.post and LikeCommentView.post:
\* lookup, duplicate check, Like.objects.create, notification, response.
LikeObject(op, user, content_type, object_id, exists, author, already) ==
    IF ~IsAuthenticated(user) THEN SmDenied(op, user, object_id)
    ELSE IF ~exists THEN
        /\ smResp' = SmResponse(op, user, object_id, 404, 0, 0,
                                IF content_type = "post" THEN "Post not found"
                                ELSE "Comment not found")
        /\ UNCHANGED <<posts, comments, likes, notifications, nextLikeId, nextNotifId>>
    ELSE IF LikeFilter(likes, user, content_type, object_id) # {} THEN
        /\ smResp' = SmResponse(op, user, object_id, 400, 0, 0, already)
        /\ UNCHANGED <<posts, comments, likes, notifications, nextLikeId, nextNotifId>>
    ELSE IF ~UniqueTogetherLike(likes, user, content_type, object_id) THEN
        \* IntegrityError out of Like.objects.create: unhandled, 500
        /\ smResp' = SmResponse(op, user, object_id, 500, 0, 0, "IntegrityError")
        /\ UNCHANGED <<posts, comments, likes, notifications, nextLikeId, nextNotifId>>
    ELSE
        /\ nextLikeId <= MaxLikeId
        /\ NotifiesAuthor(author, user) => nextNotifId <= MaxNotifId
        /\ likes' = likes \cup {[id |-> nextLikeId, user |-> user,
                                 content_type |-> content_type,
                                 object_id |-> object_id]}
        /\ nextLikeId' = nextLikeId + 1
        /\ IF NotifiesAuthor(author, user)
           THEN /\ notifications' = notifications \cup
                      {create_like_notification(nextNotifId, author, user,
                                                content_type, object_id)}
                /\ nextNotifId' = nextNotifId + 1
           ELSE UNCHANGED <<notifications, nextNotifId>>
        /\ smResp' = SmResponse(op, user, object_id, 201, nextLikeId,
                                LikeCount(likes', content_type, object_id), "")
        /\ UNCHANGED <<posts, comments>>

LikePostView(user, post_id) ==
    LikeObject("like_post", user, "post", post_id,
               post_id \in DOMAIN posts,
               IF post_id \in DOMAIN posts THEN posts[post_id] ELSE Anonymous,
               "You have already liked this post")

LikeCommentView(user, comment_id) ==
    LikeObject("like_comment", user, "comment", comment_id,
               comment_id \in DOMAIN comments,
               IF comment_id \in DOMAIN comments
               THEN comments[comment_id].author ELSE Anonymous,
               "You have already liked this comment")

\* The common body of UnlikePostView.post and UnlikeCommentView.post.
UnlikeObject(op, user, content_type, object_id, exists) ==
    IF ~IsAuthenticated(user) THEN SmDenied(op, user, object_id)
    ELSE IF ~exists THEN
        /\ smResp' = SmResponse(op, user, object_id, 404, 0, 0,
                                IF content_type = "post" THEN "Post not found"
                                ELSE "Comment not found")
        /\ UNCHANGED <<posts, comments, likes, notifications, nextLikeId, nextNotifId>>
    ELSE
        /\ likes' = likes \ UnlikeFilter(likes, user, content_type, object_id)
        /\ smResp' = SmResponse(op, user, object_id, 200, 0,
                                LikeCount(likes', content_type, object_id), "")
        /\ UNCHANGED <<posts, comments, notifications, nextLikeId, nextNotifId>>

UnlikePostView(user, post_id) ==
    UnlikeObject("unlike_post", user, "post", post_id, post_id \in DOMAIN posts)

UnlikeCommentView(user, comment_id) ==
    UnlikeObject("unlike_comment", user, "comment", comment_id,
                 comment_id \in DOMAIN comments)

\* Like.objects.create(...) called directly, as the fixtures of tests_likes.py
\* do: only the database constraint stands between the call and the table.
LikeObjectsCreate(user, content_type, object_id) ==
    /\ nextLikeId <= MaxLikeId
    /\ IF UniqueTogetherLike(likes, user, content_type, object_id)
       THEN /\ likes' = likes \cup {[id |-> nextLikeId, user |-> user,
                                     content_type |-> content_type,
                                     object_id |-> object_id]}
            /\ nextLikeId' = nextLikeId + 1
            /\ smResp' = SmResponse("orm_create", user, object_id, 0,
                                    nextLikeId, 0, "")
       ELSE /\ smResp' = SmResponse("orm_create", user, object_id, 0, 0, 0,
                                    "IntegrityError")
            /\ UNCHANGED <<likes, nextLikeId>>
    /\ UNCHANGED <<posts, comments, notifications, nextNotifId>>

SmInit ==
    /\ posts = [p \in PostIds |-> "user1"]
    /\ comments = [c \in CommentIds |-> [post |-> 1, author |-> "user2"]]
    /\ likes = {}
    /\ notifications = {}
    /\ nextLikeId = 1
    /\ nextNotifId = 1
    /\ smResp = SmResponse("none", Anonymous, 0, 0, 0, 0, "")

DoLikePost ==
    \E u \in Users \cup {Anonymous}, p \in PostIds \cup {NoSuchId} : LikePostView(u, p)
DoUnlikePost ==
    \E u \in Users \cup {Anonymous}, p \in PostIds \cup {NoSuchId} : UnlikePostView(u, p)
DoLikeComment ==
    \E u \in Users \cup {Anonymous}, c \in CommentIds \cup {NoSuchId} : LikeCommentView(u, c)
DoUnlikeComment ==
    \E u \in Users \cup {Anonymous}, c \in CommentIds \cup {NoSuchId} : UnlikeCommentView(u, c)
DoLikeObjectsCreate ==
    \E u \in Users : \/ \E p \in PostIds : LikeObjectsCreate(u, "post", p)
                     \/ \E c \in CommentIds : LikeObjectsCreate(u, "comment", c)

LikesNext ==
    /\ \/ DoLikePost
       \/ DoUnlikePost
       \/ DoLikeComment
       \/ DoUnlikeComment
       \/ DoLikeObjectsCreate
    /\ UNCHANGED <<snVars, apiVars, apVars, pfVars, rqVars>>

----------------------------------------------------------------------------
(***************************************************************************)
(* social_media_api: follows, notifications and the feed                   *)
(***************************************************************************)

\* CustomUser.id of the fixture users.
UserId(user) == IF user = "user1" THEN 1 ELSE IF user = "user2" THEN 2 ELSE 0

UserIds == {UserId(u) : u \in Users}

UserById(id) == CHOOSE u \in Users : UserId(u) = id

\* The body of a follow / unfollow request: user_id as FollowSerializer
\* (IntegerField, required) reads it.
FollowData(valid, user_id) == [valid |-> valid, user_id |-> user_id]

\* CustomUser.is_following: user in self.following.all().
is_following(rows, follower, user) == <<follower, user>> \in rows

\* Notification.create_follow_notification.
create_follow_notification_swapped(id, recipient, actor) ==
    [id |-> id, recipient |-> actor, actor |-> recipient,
     verb |-> "started following you", notification_type |-> "follow",
     target_content_type |-> "", target_object_id |-> 0,
     read |-> FALSE]

create_follow_notification(id, recipient, actor) ==
    [id |-> id, recipient |-> recipient, actor |-> actor,
     verb |-> "started following you", notification_type |-> "follow",
     target_content_type |-> "", target_object_id |-> 0,
     read |-> FALSE]

SnResponse(op, user, target, status, ids, count, error) ==
    [op |-> op, user |-> user, target |-> target, status |-> status,
     ids |-> ids, count |-> count, error |-> error]

\* A request that IsAuthenticated refuses; nothing is written.
SnDenied(op, user, target) ==
    /\ \E s \in {401, 403} :
          snResp' = SnResponse(op, user, target, s, <<>>, 0, "not authenticated")
    /\ UNCHANGED <<following, notifications, nextNotifId>>

SnError(op, user, target, status, error) ==
    /\ snResp' = SnResponse(op, user, target, status, <<>>, 0, error)
    /\ UNCHANGED <<following, notifications, nextNotifId>>

\* FollowUserView.post.
FollowUserView(user, data) ==
    /\ UNCHANGED <<posts, comments, likes, nextLikeId, smResp, postCreatedAt, clock>>
    /\ IF ~IsAuthenticated(user) THEN SnDenied("follow", user, data.user_id)
       ELSE IF ~data.valid THEN SnError("follow", user, 0, 400, "user_id")
       ELSE IF data.user_id = UserId(user)
            THEN SnError("follow", user, data.user_id, 400, "You cannot follow yourself.")
       ELSE IF data.user_id \notin UserIds
            THEN SnError("follow", user, data.user_id, 404, "Not found.")
       ELSE IF is_following(following, user, UserById(data.user_id))
            THEN SnError("follow", user, data.user_id, 400,
                         "You are already following this user.")
       ELSE /\ nextNotifId <= MaxNotifId
            /\ following' = following \cup {<<user, UserById(data.user_id)>>}
            /\ notifications' = notifications \cup
                   {create_follow_notification(nextNotifId, UserById(data.user_id), user)}
            /\ nextNotifId' = nextNotifId + 1
            /\ snResp' = SnResponse("follow", user, data.user_id, 200, <<>>,
                   Cardinality({f \in following' : f[2] = UserById(data.user_id)}), "")

\* UnfollowUserView.post.
UnfollowUserView(user, data) ==
    /\ UNCHANGED <<posts, comments, likes, nextLikeId, smResp, postCreatedAt, clock>>
    /\ IF ~IsAuthenticated(user) THEN SnDenied("unfollow", user, data.user_id)
       ELSE IF ~data.valid THEN SnError("unfollow", user, 0, 400, "user_id")
       ELSE IF data.user_id = UserId(user)
            THEN SnError("unfollow", user, data.user_id, 400, "You cannot unfollow yourself.")
       ELSE IF data.user_id \notin UserIds
            THEN SnError("unfollow", user, data.user_id, 404, "Not found.")
       ELSE IF ~is_following(following, user, UserById(data.user_id))
            THEN SnError("unfollow", user, data.user_id, 400,
                         "You are not following this user.")
       ELSE /\ following' = following \ {<<user, UserById(data.user_id)>>}
            /\ snResp' = SnResponse("unfollow", user, data.user_id, 200, <<>>,
                   Cardinality({f \in following' : f[2] = UserById(data.user_id)}), "")
            /\ UNCHANGED <<notifications, nextNotifId>>

\* Notification.objects.filter(recipient=request.user): the queryset of the
\* list, detail, count and delete-all views.
NotificationQueryset_all(rows, user) == rows

NotificationQueryset(rows, user) == {n \in rows : n.recipient = user}

\* Notification.objects.filter(recipient=request.user) as
\* DeleteAllNotificationsView deletes it.
DeleteAllQueryset_everyone(rows, user) == rows

DeleteAllQueryset(rows, user) == {n \in rows : n.recipient = user}

\* Notification.objects.filter(recipient=request.user, read=False).
UnreadQueryset_anyRecipient(rows, user) == {n \in rows : ~n.read}

UnreadQueryset(rows, user) == {n \in rows : n.recipient = user /\ ~n.read}

\* QuerySet.update(read=True) on a queryset: the rows after it.
UpdateRead(rows, queryset) ==
    (rows \ queryset) \cup {[n EXCEPT !.read = TRUE] : n \in queryset}

\* order_by('-created_at'): the primary keys, newest first (created_at grows
\* with the primary key).
RECURSIVE NewestFirst(_)
NewestFirst(ids) ==
    IF ids = {} THEN <<>>
    ELSE LET m == CHOOSE i \in ids : \A j \in ids : j <= i
         IN  <<m>> \o NewestFirst(ids \ {m})

NotifIds(rows) == {n.id : n \in rows}

NotifByPk(rows, pk) == CHOOSE n \in rows : n.id = pk

\* What the notification views leave alone.
NotifFrame == UNCHANGED <<posts, comments, likes, nextLikeId, smResp, following,
                          postCreatedAt, clock, nextNotifId>>

NotifDenied(op, user, target) ==
    /\ \E s \in {401, 403} :
          snResp' = SnResponse(op, user, target, s, <<>>, 0, "not authenticated")
    /\ UNCHANGED notifications

\* NotificationListView.get: ?mark_read=true marks the user's unread
\* notifications as read before the list is built.
NotificationListView(user, mark_read) ==
    /\ NotifFrame
    /\ IF ~IsAuthenticated(user) THEN NotifDenied("notification_list", user, 0)
       ELSE /\ notifications' = IF mark_read
                                THEN UpdateRead(notifications,
                                                UnreadQueryset(notifications, user))
                                ELSE notifications
            /\ snResp' = SnResponse("notification_list", user, 0, 200,
                   NewestFirst(NotifIds(NotificationQueryset(notifications', user))),
                   Cardinality(NotificationQueryset(notifications', user)), "")

\* UnreadNotificationsView.
UnreadNotificationsView(user) ==
    /\ NotifFrame
    /\ IF ~IsAuthenticated(user) THEN NotifDenied("notification_unread", user, 0)
       ELSE /\ snResp' = SnResponse("notification_unread", user, 0, 200,
                   NewestFirst(NotifIds(UnreadQueryset(notifications, user))),
                   Cardinality(UnreadQueryset(notifications, user)), "")
            /\ UNCHANGED notifications

\* MarkAllNotificationsReadView.post.
MarkAllNotificationsReadView(user) ==
    /\ NotifFrame
    /\ IF ~IsAuthenticated(user) THEN NotifDenied("mark_all_read", user, 0)
       ELSE LET queryset == UnreadQueryset(notifications, user)
            IN  /\ notifications' = UpdateRead(notifications, queryset)
                /\ snResp' = SnResponse("mark_all_read", user, 0, 200, <<>>,
                                        Cardinality(queryset), "")

\* DeleteAllNotificationsView.post.
DeleteAllNotificationsView(user) ==
    /\ NotifFrame
    /\ IF ~IsAuthenticated(user) THEN NotifDenied("delete_all", user, 0)
       ELSE LET queryset == DeleteAllQueryset(notifications, user)
            IN  /\ notifications' = notifications \ queryset
                /\ snResp' = SnResponse("delete_all", user, 0, 200, <<>>,
                                        Cardinality(queryset), "")

\* The body of a PATCH to NotificationDetailView: NotificationSerializer
\* writes 'read' and 'verb'; 'recipient' and 'actor' are read-only.
NotifPatch(fields, read, verb) == [fields |-> fields, read |-> read, verb |-> verb]

NoPatch == NotifPatch({}, FALSE, "")

ApplyNotifPatch(n, data) ==
    [n EXCEPT !.read = IF "read" \in data.fields THEN data.read ELSE @,
              !.verb = IF "verb" \in data.fields THEN data.verb ELSE @]

\* NotificationDetailView: get_object looks the pk up in the requester's
\* notifications only.
NotificationDetailView(user, method, pk, data) ==
    LET op == IF method = "GET" THEN "notification_retrieve"
              ELSE IF method = "PATCH" THEN "notification_update"
              ELSE "notification_delete"
        queryset == NotificationQueryset(notifications, user)
    IN  /\ NotifFrame
        /\ IF ~IsAuthenticated(user) THEN NotifDenied(op, user, pk)
           ELSE IF pk \notin NotifIds(queryset) THEN
                /\ snResp' = SnResponse(op, user, pk, 404, <<>>, 0, "Not found.")
                /\ UNCHANGED notifications
           ELSE IF method = "GET" THEN
                /\ snResp' = SnResponse(op, user, pk, 200, <<pk>>, 0, "")
                /\ UNCHANGED notifications
           ELSE IF method = "PATCH" THEN
                /\ notifications' = (notifications \ {NotifByPk(queryset, pk)})
                        \cup {ApplyNotifPatch(NotifByPk(queryset, pk), data)}
                /\ snResp' = SnResponse(op, user, pk, 200, <<pk>>, 0, "")
           ELSE /\ notifications' = notifications \ {NotifByPk(queryset, pk)}
                /\ snResp' = SnResponse(op, user, pk, 204, <<>>, 0, "")

\* Bound on the primary keys of Post handed out in one behaviour.
MaxPostId == 2

\* What a Post instance has besides its columns: the forward relation
\* 'author' and the reverse relation 'comments' (Comment.post,
\* related_name='comments').  Like points at posts through a generic foreign
\* key and gives Post no attribute.
PostRelations == {"author", "comments"}

PostColumns == {"id", "author", "title", "content", "image", "created_at", "updated_at"}

PostProperties == {"like_count", "comment_count"}

\* prefetch_related(...) of FeedView.get and of PostViewSet.feed.
FeedViewPrefetch == {<<"comments">>, <<"likes">>, <<"comments", "author">>}
PostsFeedPrefetch == {<<"comments">>, <<"likes">>}

\* prefetch_related_objects: with no instance fetched nothing is looked up;
\* otherwise the first name of every lookup must be an attribute of Post
\* ("Cannot find ... is an invalid parameter to prefetch_related()").
PrefetchFails(lookups, result) ==
    result # {} /\ \E l \in lookups : l[1] \notin PostRelations

\* PostSerializer: Meta.fields and the fields the class declares.
PostSerializerFields ==
    {"id", "author", "author_username", "title", "content", "image", "created_at",
     "updated_at", "likes", "comments", "comment_count", "like_count", "is_liked"}

PostSerializerDeclared ==
    {"author_username", "comments", "comment_count", "like_count", "is_liked"}

\* ModelSerializer.build_field, run when the first instance is serialized: a
\* name in Meta.fields that is neither declared nor a column, relation or
\* attribute of the model is refused (ImproperlyConfigured).
SerializerFails(result) ==
    result # {} /\ \E f \in PostSerializerFields :
        f \notin PostSerializerDeclared \cup PostColumns \cup PostRelations \cup PostProperties

\* request.user.following.all().
following_users(rows, user) == {f[2] : f \in {g \in rows : g[1] = user}}

\* The filter of FeedView.get: Q(author=request.user), or-ed with
\* Q(author__in=following_users) when the user follows anyone.
FeedQueries_followedOnly(user, author) == author \in following_users(following, user)

FeedQueries(user, author) ==
    \/ author = user
    \/ /\ following_users(following, user) # {}
       /\ author \in following_users(following, user)

\* created_at__gte=start_date / created_at__lte=end_date; 0 stands for a
\* parameter that is not given.
InDateRange(t, start_date, end_date) ==
    /\ start_date # 0 => t >= start_date
    /\ end_date # 0 => t <= end_date

\* order_by('-created_at'); posts of one instant by descending primary key.
RECURSIVE OrderByCreatedAtDesc(_)
OrderByCreatedAtDesc(ids) ==
    IF ids = {} THEN <<>>
    ELSE LET m == CHOOSE i \in ids : \A j \in ids :
                     \/ postCreatedAt[j] < postCreatedAt[i]
                     \/ postCreatedAt[j] = postCreatedAt[i] /\ j <= i
         IN  <<m>> \o OrderByCreatedAtDesc(ids \ {m})

FeedFrame == UNCHANGED <<posts, comments, likes, nextLikeId, smResp, following,
                         postCreatedAt, clock, notifications, nextNotifId>>

\* The evaluation of the page and its serialization, common to both feeds.
FeedResponse(op, user, filtered, lookups, result) ==
    IF PrefetchFails(lookups, result)
    THEN snResp' = SnResponse(op, user, filtered, 500, <<>>, 0, "AttributeError")
    ELSE IF SerializerFails(result)
    THEN snResp' = SnResponse(op, user, filtered, 500, <<>>, 0, "ImproperlyConfigured")
    ELSE snResp' = SnResponse(op, user, filtered, 200, OrderByCreatedAtDesc(result),
                              Cardinality(result), "")

\* FeedView.get.
FeedView(user, start_date, end_date) ==
    LET filtered == IF start_date = 0 /\ end_date = 0 THEN 0 ELSE 1
        result == {p \in DOMAIN posts :
                      /\ FeedQueries(user, posts[p])
                      /\ InDateRange(postCreatedAt[p], start_date, end_date)}
    IN  /\ FeedFrame
        /\ IF ~IsAuthenticated(user)
           THEN \E st \in {401, 403} :
                   snResp' = SnResponse("feed", user, filtered, st, <<>>, 0,
                                        "not authenticated")
           ELSE FeedResponse("feed", user, filtered, FeedViewPrefetch, result)

\* PostViewSet.feed: author_id__in=[own id] + ids of the followed users.
PostViewSetFeed(user) ==
    LET user_ids == {UserId(user)} \cup {UserId(u) : u \in following_users(following, user)}
        result == {p \in DOMAIN posts : UserId(posts[p]) \in user_ids}
    IN  /\ FeedFrame
        /\ IF ~IsAuthenticated(user)
           THEN \E st \in {401, 403} :
                   snResp' = SnResponse("posts_feed", user, 0, st, <<>>, 0,
                                        "not authenticated")
           ELSE FeedResponse("posts_feed", user, 0, PostsFeedPrefetch, result)

\* PostViewSet.create: perform_create saves the post with
\* author=request.user; created_at is the time of the save, the instant of
\* the newest post or a later one.
PostViewSetCreate(user, valid, t) ==
    /\ UNCHANGED <<comments, likes, nextLikeId, smResp, following, notifications,
                   nextNotifId>>
    /\ IF ~IsAuthenticated(user) THEN
            /\ \E st \in {401, 403} :
                  snResp' = SnResponse("post_create", user, 0, st, <<>>, 0,
                                       "not authenticated")
            /\ UNCHANGED <<posts, postCreatedAt, clock>>
       ELSE IF ~valid THEN
            /\ snResp' = SnResponse("post_create", user, 0, 400, <<>>, 0, "title")
            /\ UNCHANGED <<posts, postCreatedAt, clock>>
       ELSE LET id == Cardinality(DOMAIN posts) + 1
            IN  /\ id <= MaxPostId
                /\ posts' = [p \in DOMAIN posts \cup {id} |->
                                IF p = id THEN user ELSE posts[p]]
                /\ postCreatedAt' = [p \in DOMAIN posts \cup {id} |->
                                        IF p = id THEN t ELSE postCreatedAt[p]]
                /\ clock' = t
                /\ snResp' = SnResponse("post_create", user, id, 201, <<>>, 0, "")

SnInit ==
    /\ following = {}
    /\ postCreatedAt = [p \in PostIds |-> 1]
    /\ clock = 1
    /\ snResp = SnResponse("none", Anonymous, 0, 0, <<>>, 0, "")

FollowPayloads ==
    {FollowData(TRUE, id) : id \in UserIds \cup {NoSuchId}} \cup {FollowData(FALSE, 0)}

DoFollow ==
    \/ \E u \in Users, d \in FollowPayloads : FollowUserView(u, d)
    \/ FollowUserView(Anonymous, FollowData(TRUE, 1))
DoUnfollow ==
    \/ \E u \in Users, d \in FollowPayloads : UnfollowUserView(u, d)
    \/ UnfollowUserView(Anonymous, FollowData(TRUE, 1))

NotifPatches ==
    {NotifPatch({"read"}, TRUE, ""), NotifPatch({"read"}, FALSE, "")}

NotifPks == NotifIds(notifications) \cup {NoSuchId}

DoNotificationList ==
    \E u \in Users \cup {Anonymous}, mark_read \in BOOLEAN : NotificationListView(u, mark_read)
DoNotificationUnread == \E u \in Users \cup {Anonymous} : UnreadNotificationsView(u)
DoMarkAllRead == \E u \in Users \cup {Anonymous} : MarkAllNotificationsReadView(u)
DoDeleteAll == \E u \in Users \cup {Anonymous} : DeleteAllNotificationsView(u)
DoNotificationDetail ==
    \/ \E u \in Users, pk \in NotifPks :
          \/ NotificationDetailView(u, "GET", pk, NoPatch)
          \/ \E d \in NotifPatches : NotificationDetailView(u, "PATCH", pk, d)
          \/ NotificationDetailView(u, "DELETE", pk, NoPatch)
    \/ \E method \in {"GET", "PATCH", "DELETE"} :
          NotificationDetailView(Anonymous, method, NoSuchId, NoPatch)

\* A like of user1's post by user2, the other source of notifications.
DoLikeForNotification ==
    /\ \E p \in PostIds : LikePostView("user2", p)
    /\ snResp' = SnResponse("like_post", "user2", smResp'.target, smResp'.status,
                            <<>>, smResp'.like_count, smResp'.error)
    /\ UNCHANGED <<following, postCreatedAt, clock>>

NotificationsNext ==
    /\ \/ DoFollow
       \/ DoLikeForNotification
       \/ DoNotificationList
       \/ DoNotificationUnread
       \/ DoMarkAllRead
       \/ DoDeleteAll
       \/ DoNotificationDetail
    /\ UNCHANGED <<apiVars, apVars, pfVars, rqVars>>

DoFeed ==
    \E u \in Users \cup {Anonymous} :
        \E dates \in {<<0, 0>>, <<2, 0>>, <<0, 1>>} : FeedView(u, dates[1], dates[2])
DoPostsFeed == \E u \in Users \cup {Anonymous} : PostViewSetFeed(u)
DoPostCreate ==
    \E u \in Users \cup {Anonymous}, valid \in BOOLEAN, t \in {clock, clock + 1} :
        PostViewSetCreate(u, valid, t)

FeedNext ==
    /\ \/ DoFollow
       \/ DoUnfollow
       \/ DoPostCreate
       \/ DoFeed
       \/ DoPostsFeed
    /\ UNCHANGED <<apiVars, apVars, pfVars, rqVars>>

----------------------------------------------------------------------------
(***************************************************************************)
(* social_media_api under gunicorn: several sync workers serve requests at *)
(* the same time, each statement of a view committing on its own           *)
(***************************************************************************)

\* Bound on the requests of one behaviour.
MaxRequests == 2

Slots == 1..MaxRequests

Request(view, user, target, pc, status, error) ==
    [view |-> view, user |-> user, target |-> target, pc |-> pc,
     status |-> status, error |-> error]

IdleRequest == Request("", Anonymous, 0, "idle", 0, "")

Respond(r, status, error) ==
    requests' = [requests EXCEPT ![r] = [@ EXCEPT !.pc = "done", !.status = status,
                                                  !.error = error]]

Goto(r, pc) == requests' = [requests EXCEPT ![r].pc = pc]

RqFrame == UNCHANGED <<posts, comments, smResp, postCreatedAt, clock, snResp>>

\* FollowUserView.post up to the is_following check: validation, the
\* self-follow test, get_object_or_404 and the query of the following table.
FollowCheck(r, user, user_id) ==
    /\ requests[r].pc = "idle"
    /\ RqFrame
    /\ UNCHANGED <<following, notifications, nextNotifId, likes, nextLikeId>>
    /\ LET req == Request("follow", user, user_id, "add", 0, "")
       IN  requests' = [requests EXCEPT ![r] =
              IF user_id = UserId(user)
              THEN [req EXCEPT !.pc = "done", !.status = 400,
                               !.error = "You cannot follow yourself."]
              ELSE IF user_id \notin UserIds
              THEN [req EXCEPT !.pc = "done", !.status = 404, !.error = "Not found."]
              ELSE IF is_following(following, user, UserById(user_id))
              THEN [req EXCEPT !.pc = "done", !.status = 400,
                               !.error = "You are already following this user."]
              ELSE req]

\* request.user.following.add(user_to_follow): the row is inserted unless
\* the through table holds it already (the insert ignores conflicts), and no
\* error is raised either way.
FollowAdd(r) ==
    LET pair == <<requests[r].user, UserById(requests[r].target)>>
    IN  /\ requests[r].view = "follow" /\ requests[r].pc = "add"
        /\ RqFrame
        /\ UNCHANGED <<notifications, nextNotifId, likes, nextLikeId>>
        /\ following' = following \cup {pair}
        /\ Goto(r, "notify")

\* Notification.create_follow_notification(...) and the 200 response.
FollowNotify(r) ==
    /\ requests[r].view = "follow" /\ requests[r].pc = "notify"
    /\ nextNotifId <= MaxNotifId
    /\ RqFrame
    /\ UNCHANGED <<following, likes, nextLikeId>>
    /\ notifications' = notifications \cup
           {create_follow_notification(nextNotifId, UserById(requests[r].target),
                                       requests[r].user)}
    /\ nextNotifId' = nextNotifId + 1
    /\ Respond(r, 200, "")

\* LikePostView.post up to the like_exists check: Post.objects.get and
\* Like.objects.filter(...).exists().
LikeCheck(r, user, post_id) ==
    /\ requests[r].pc = "idle"
    /\ RqFrame
    /\ UNCHANGED <<following, notifications, nextNotifId, likes, nextLikeId>>
    /\ LET req == Request("like_post", user, post_id, "create", 0, "")
       IN  requests' = [requests EXCEPT ![r] =
              IF post_id \notin DOMAIN posts
              THEN [req EXCEPT !.pc = "done", !.status = 404, !.error = "Post not found"]
              ELSE IF LikeFilter(likes, user, "post", post_id) # {}
              THEN [req EXCEPT !.pc = "done", !.status = 400,
                               !.error = "You have already liked this post"]
              ELSE req]

\* Like.objects.create(...): unique_together refuses a second row of the
\* same user and post with IntegrityError, which the view does not catch.
LikeCreate(r) ==
    LET user == requests[r].user
        post_id == requests[r].target
    IN  /\ requests[r].view = "like_post" /\ requests[r].pc = "create"
        /\ RqFrame
        /\ UNCHANGED <<following, notifications, nextNotifId>>
        /\ IF ~UniqueTogetherLike(likes, user, "post", post_id)
           THEN /\ Respond(r, 500, "IntegrityError")
                /\ UNCHANGED <<likes, nextLikeId>>
           ELSE /\ nextLikeId <= MaxLikeId
                /\ likes' = likes \cup {[id |-> nextLikeId, user |-> user,
                                         content_type |-> "post", object_id |-> post_id]}
                /\ nextLikeId' = nextLikeId + 1
                /\ Goto(r, "notify")

\* The notification of the post's author, unless the author is the one who
\* likes, and the 201 response.
LikeNotify(r) ==
    LET user == requests[r].user
        post_id == requests[r].target
    IN  /\ requests[r].view = "like_post" /\ requests[r].pc = "notify"
        /\ RqFrame
        /\ UNCHANGED <<following, likes, nextLikeId>>
        /\ IF NotifiesAuthor(posts[post_id], user)
           THEN /\ nextNotifId <= MaxNotifId
                /\ notifications' = notifications \cup
                       {create_like_notification(nextNotifId, posts[post_id], user,
                                                 "post", post_id)}
                /\ nextNotifId' = nextNotifId + 1
           ELSE UNCHANGED <<notifications, nextNotifId>>
        /\ Respond(r, 201, "")

RqInit == requests = [r \in Slots |-> IdleRequest]

DoFollowCheck ==
    \E r \in Slots, u \in Users, id \in UserIds \cup {NoSuchId} : FollowCheck(r, u, id)
DoFollowAdd == \E r \in Slots : FollowAdd(r)
DoFollowNotify == \E r \in Slots : FollowNotify(r)
DoLikeCheck ==
    \E r \in Slots, u \in Users, p \in PostIds \cup {NoSuchId} : LikeCheck(r, u, p)
DoLikeCreate == \E r \in Slots : LikeCreate(r)
DoLikeNotify == \E r \in Slots : LikeNotify(r)

ConcurrentNext ==
    /\ \/ DoFollowCheck
       \/ DoFollowAdd
       \/ DoFollowNotify
       \/ DoLikeCheck
       \/ DoLikeCreate
       \/ DoLikeNotify
    /\ UNCHANGED <<apiVars, apVars, pfVars>>

----------------------------------------------------------------------------
(***************************************************************************)
(* django-models, advanced_features_and_security, django_blog: one         *)
(* profile per user, kept by two post_save receivers                       *)
(***************************************************************************)

\* Bound on the users created in one behaviour.
MaxUsers == 3

Projects == {"django-models", "advanced_features_and_security", "django_blog"}

\* UserProfile of the two library projects has a role; Profile of django_blog
\* has none.
HasRoles(project) == project # "django_blog"

Roles == {"admin", "librarian", "member"}

\* role = CharField(..., default='member')
DefaultRole(project) == IF HasRoles(project) THEN "member" ELSE ""

ProfilesOf(rows, user) == {p \in rows : p.user = user}

\* user = OneToOneField(User): TRUE when the database accepts a profile row
\* for this user.
OneToOneUnique_foreignKey(rows, user) == TRUE

OneToOneUnique(rows, user) == ProfilesOf(rows, user) = {}

PfState(rows, next_id, exc) == [profiles |-> rows, nextProfileId |-> next_id, exc |-> exc]

\* Profile.objects.create(user=instance) / UserProfile.objects.create(...).
\* Profile.save of django_blog opens the picture after the row is written;
\* image_ok is whether that succeeds.
ProfileObjectsCreate(project, st, user, image_ok) ==
    IF ~OneToOneUnique(st.profiles, user)
    THEN PfState(st.profiles, st.nextProfileId, "IntegrityError")
    ELSE PfState(st.profiles \cup {[id |-> st.nextProfileId, user |-> user,
                                    role |-> DefaultRole(project)]},
                 st.nextProfileId + 1,
                 IF project = "django_blog" /\ ~image_ok THEN "ImageError" ELSE "")

\* Receiver create_user_profile (the same in the three projects).
create_user_profile(project, st, user, created, image_ok) ==
    IF created THEN ProfileObjectsCreate(project, st, user, image_ok) ELSE st

\* Receiver save_user_profile of the library projects:
\* if hasattr(instance, 'profile'): instance.profile.save()
save_user_profile_library(project, st, user) ==
    IF Cardinality(ProfilesOf(st.profiles, user)) > 1
    THEN PfState(st.profiles, st.nextProfileId, "MultipleObjectsReturned")
    ELSE st

\* Receiver save_user_profile of django_blog:
\* try: instance.profile.save()  except: Profile.objects.create(user=instance)
save_user_profile_blog(project, st, user, save_ok, image_ok) ==
    IF Cardinality(ProfilesOf(st.profiles, user)) = 1 /\ save_ok
    THEN st
    ELSE ProfileObjectsCreate(project, st, user, image_ok)

save_user_profile(project, st, user, save_ok, image_ok) ==
    IF project = "django_blog"
    THEN save_user_profile_blog(project, st, user, save_ok, image_ok)
    ELSE save_user_profile_library(project, st, user)

\* post_save.send: the receivers in the order they are connected; an
\* exception of the first ends the dispatch.
post_save(project, st, user, created, io) ==
    LET st1 == create_user_profile(project, st, user, created, io[1])
    IN  IF st1.exc # "" THEN st1
        ELSE save_user_profile(project, st1, user, io[2], io[3])

\* The outcomes of the picture handling of up to three Profile.save calls;
\* only django_blog has any.
ImageOutcomes(project) ==
    IF project = "django_blog" THEN [1..3 -> BOOLEAN] ELSE {[i \in 1..3 |-> TRUE]}

PfOutcome(op, user, exc) == [op |-> op, user |-> user, exc |-> exc]

\* User.objects.create_user(...) / form.save() of django_blog: the first save
\* of a user.
CreateUser(io) ==
    LET st == post_save(pfProject, PfState(pfProfiles, pfNextProfileId, ""),
                        pfNextUserId, TRUE, io)
    IN  /\ pfNextUserId <= MaxUsers
        /\ pfUsers' = pfUsers \cup {pfNextUserId}
        /\ pfNextUserId' = pfNextUserId + 1
        /\ pfProfiles' = st.profiles
        /\ pfNextProfileId' = st.nextProfileId
        /\ pfOut' = PfOutcome("create_user", pfNextUserId, st.exc)
        /\ UNCHANGED pfProject

\* CustomUserCreationForm.save of the library projects: user.save(), then the
\* chosen role is written to the user's profile.
RegisterUser(role) ==
    LET st == post_save(pfProject, PfState(pfProfiles, pfNextProfileId, ""),
                        pfNextUserId, TRUE, [i \in 1..3 |-> TRUE])
        mine == ProfilesOf(st.profiles, pfNextUserId)
    IN  /\ HasRoles(pfProject)
        /\ pfNextUserId <= MaxUsers
        /\ pfUsers' = pfUsers \cup {pfNextUserId}
        /\ pfNextUserId' = pfNextUserId + 1
        /\ pfNextProfileId' = st.nextProfileId
        /\ IF st.exc # "" THEN
                /\ pfProfiles' = st.profiles
                /\ pfOut' = PfOutcome("register", pfNextUserId, st.exc)
           ELSE IF Cardinality(mine) # 1 THEN
                /\ pfProfiles' = st.profiles
                /\ pfOut' = PfOutcome("register", pfNextUserId,
                                      IF mine = {} THEN "RelatedObjectDoesNotExist"
                                      ELSE "MultipleObjectsReturned")
           ELSE /\ pfProfiles' = (st.profiles \ mine) \cup
                                    {[p EXCEPT !.role = role] : p \in mine}
                /\ pfOut' = PfOutcome("register", pfNextUserId, "")
        /\ UNCHANGED pfProject

\* user.save() of an existing user.
SaveUser(user, io) ==
    LET st == post_save(pfProject, PfState(pfProfiles, pfNextProfileId, ""),
                        user, FALSE, io)
    IN  /\ user \in pfUsers
        /\ pfProfiles' = st.profiles
        /\ pfNextProfileId' = st.nextProfileId
        /\ pfOut' = PfOutcome("save_user", user, st.exc)
        /\ UNCHANGED <<pfProject, pfUsers, pfNextUserId>>

\* request.user of a request without a session.
AnonymousUser == 0

\* related_name of UserProfile.user in the two library projects: the name
\* under which a user instance reaches its profile.
ProfileRelatedName(project) == "profile"

\* hasattr(user, name) for the name of a reverse one-to-one accessor: TRUE
\* when the user model has that accessor and the user has a profile row.
hasattr(project, rows, user, name) ==
    name = ProfileRelatedName(project) /\ ProfilesOf(rows, user) # {}

RoleOf(rows, user) == (CHOOSE p \in ProfilesOf(rows, user) : TRUE).role

PfResponse(view, user, outcome, location) ==
    [view |-> view, user |-> user, outcome |-> outcome, location |-> location]

\* What a decorator hands on: the view itself, or the response that ends the
\* request.
RunView == PfResponse("", 0, "view", "")
RedirectTo(location) == PfResponse("", 0, "redirect", location)
Forbidden == PfResponse("", 0, "forbidden", "")

\* django.contrib.auth.decorators.login_required around a view.
login_required(user, inner) ==
    IF user = AnonymousUser THEN RedirectTo("login") ELSE inner

\* django-models: decorators.role_required(role_name).
role_required_anyProfile(role_name, rows, user) ==
    IF user = AnonymousUser THEN RedirectTo("login")
    ELSE IF hasattr("django-models", rows, user, "profile") THEN RunView
    ELSE Forbidden

role_required(role_name, rows, user) ==
    IF user = AnonymousUser THEN RedirectTo("login")
    ELSE IF /\ hasattr("django-models", rows, user, "profile")
            /\ RoleOf(rows, user) = role_name
    THEN RunView
    ELSE Forbidden

\* django-models: admin_required, librarian_required, member_required.
some_role_required(role_name, rows, user) ==
    login_required(user, role_required(role_name, rows, user))

\* django-models: the role each protected view asks for.
DjViews == {"admin_view", "librarian_view", "member_view", "manage_roles"}

DjViewRole(view) ==
    CASE view = "admin_view" -> "admin"
      [] view = "librarian_view" -> "librarian"
      [] view = "member_view" -> "member"
      [] view = "manage_roles" -> "admin"

\* request.POST.get('role') of a request without that field.
None == "None"

\* The POST branch of manage_roles (the same in both projects):
\* UserProfile.objects.get(id=user_id), role = new_role, save().  The role is
\* saved as sent; a missing role violates NOT NULL and the request fails.
ManageRolesPost(rows, user_id, new_role) ==
    IF \A p \in rows : p.id # user_id THEN [rows |-> rows, exc |-> ""]
    ELSE IF new_role = None THEN [rows |-> rows, exc |-> "IntegrityError"]
    ELSE [rows |-> {IF p.id = user_id THEN [p EXCEPT !.role = new_role] ELSE p : p \in rows},
          exc |-> ""]

PfRequestFrame == UNCHANGED <<pfProject, pfUsers, pfNextUserId, pfNextProfileId, pfOut>>

\* django-models: admin_view, librarian_view, member_view and manage_roles,
\* each under @login_required and its role decorator.
DjRoleView(view, user, method, user_id, new_role) ==
    LET gate == login_required(user, some_role_required(DjViewRole(view), pfProfiles, user))
        post == ManageRolesPost(pfProfiles, user_id, new_role)
    IN  /\ pfProject = "django-models"
        /\ PfRequestFrame
        /\ IF gate # RunView THEN
                /\ pfResp' = PfResponse(view, user, gate.outcome, gate.location)
                /\ UNCHANGED pfProfiles
           ELSE IF view = "manage_roles" /\ method = "POST" THEN
                /\ pfProfiles' = post.rows
                /\ pfResp' = IF post.exc # "" THEN PfResponse(view, user, "error", post.exc)
                             ELSE PfResponse(view, user, "render", "")
           ELSE /\ pfResp' = PfResponse(view, user, "render", "")
                /\ UNCHANGED pfProfiles

\* advanced_features_and_security: is_admin, is_librarian, is_member.
is_role(role, rows, user) ==
    /\ hasattr("advanced_features_and_security", rows, user, "userprofile")
    /\ RoleOf(rows, user) = role

\* django.contrib.auth.decorators.user_passes_test(test, login_url=...).
user_passes_test(passes, inner) ==
    IF passes THEN inner ELSE RedirectTo("login")

\* advanced_features_and_security: dashboard_view.
dashboard_view(user) ==
    LET gate == login_required(user, RunView)
        role == RoleOf(pfProfiles, user)
    IN  /\ pfProject = "advanced_features_and_security"
        /\ PfRequestFrame
        /\ UNCHANGED pfProfiles
        /\ pfResp' =
             IF gate # RunView
             THEN PfResponse("dashboard", user, gate.outcome, gate.location)
             ELSE IF ~hasattr(pfProject, pfProfiles, user, "userprofile")
             THEN PfResponse("dashboard", user, "redirect", "home")
             ELSE IF role = "admin"
             THEN PfResponse("dashboard", user, "redirect", "admin_dashboard")
             ELSE IF role = "librarian"
             THEN PfResponse("dashboard", user, "redirect", "librarian_dashboard")
             ELSE IF role = "member"
             THEN PfResponse("dashboard", user, "redirect", "member_dashboard")
             ELSE PfResponse("dashboard", user, "redirect", "home")

\* advanced_features_and_security: the role each protected view asks for.
AdvViews == {"admin_dashboard", "librarian_dashboard", "member_dashboard",
             "manage_roles", "user_management"}

AdvViewRole(view) ==
    CASE view = "librarian_dashboard" -> "librarian"
      [] view = "member_dashboard" -> "member"
      [] OTHER -> "admin"

\* admin_dashboard and manage_roles order the profiles by '-created_at', a
\* field UserProfile does not have (FieldError).
AdvViewBody(view) ==
    IF view \in {"admin_dashboard", "manage_roles"} THEN "FieldError" ELSE ""

\* advanced_features_and_security: the role dashboards, manage_roles and
\* user_management, each under @login_required and @user_passes_test.
AdvRoleView(view, user, method, user_id, new_role) ==
    LET gate == login_required(user,
                    user_passes_test(is_role(AdvViewRole(view), pfProfiles, user), RunView))
        post == IF view = "manage_roles" /\ method = "POST"
                THEN ManageRolesPost(pfProfiles, user_id, new_role)
                ELSE [rows |-> pfProfiles, exc |-> ""]
    IN  /\ pfProject = "advanced_features_and_security"
        /\ PfRequestFrame
        /\ IF gate # RunView THEN
                /\ pfResp' = PfResponse(view, user, gate.outcome, gate.location)
                /\ UNCHANGED pfProfiles
           ELSE /\ pfProfiles' = post.rows
                /\ pfResp' = IF post.exc # "" THEN PfResponse(view, user, "error", post.exc)
                             ELSE IF AdvViewBody(view) # ""
                             THEN PfResponse(view, user, "error", AdvViewBody(view))
                             ELSE PfResponse(view, user, "render", "")

PfInit(projects) ==
    /\ pfProject \in projects
    /\ pfUsers = {}
    /\ pfProfiles = {}
    /\ pfNextUserId = 1
    /\ pfNextProfileId = 1
    /\ pfOut = PfOutcome("none", 0, "")
    /\ pfResp = PfResponse("none", 0, "none", "")

DoCreateUser == \E io \in ImageOutcomes(pfProject) : CreateUser(io)
DoRegisterUser == \E role \in Roles : RegisterUser(role)
DoSaveUser == \E user \in pfUsers : \E io \in ImageOutcomes(pfProject) : SaveUser(user, io)

ProfilesNext ==
    /\ \/ DoCreateUser
       \/ DoRegisterUser
       \/ DoSaveUser
    /\ UNCHANGED pfResp
    /\ UNCHANGED <<smVars, snVars, apiVars, apVars, rqVars>>

\* The role-protected views of the two library projects, with the
\* registrations that give users their roles.
PostedRoles == Roles \cup {"guest", None}

DoRegisterForRoles ==
    /\ DoRegisterUser
    /\ pfResp' = PfResponse("register", pfOut'.user, "redirect", "list_books")

DoDjRoleView ==
    \E view \in DjViews \ {"manage_roles"}, user \in pfUsers \cup {AnonymousUser} :
        DjRoleView(view, user, "GET", 0, None)

DoDjManageRoles ==
    \E user \in pfUsers \cup {AnonymousUser}, method \in {"GET", "POST"},
       user_id \in {p.id : p \in pfProfiles} \cup {NoSuchId}, new_role \in PostedRoles :
        /\ method = "GET" => (user_id = NoSuchId /\ new_role = None)
        /\ DjRoleView("manage_roles", user, method, user_id, new_role)

DoDashboard == \E user \in pfUsers \cup {AnonymousUser} : dashboard_view(user)

DoAdvRoleView ==
    \E view \in AdvViews, user \in pfUsers \cup {AnonymousUser}, method \in {"GET", "POST"},
       user_id \in {p.id : p \in pfProfiles} \cup {NoSuchId}, new_role \in PostedRoles :
        /\ (view # "manage_roles" \/ method = "GET") =>
              (method = "GET" /\ user_id = NoSuchId /\ new_role = None)
        /\ AdvRoleView(view, user, method, user_id, new_role)

RolesNext ==
    /\ \/ DoRegisterForRoles
       \/ DoDjRoleView
       \/ DoDjManageRoles
       \/ DoDashboard
       \/ DoAdvRoleView
    /\ UNCHANGED <<smVars, snVars, apiVars, apVars, rqVars>>


----------------------------------------------------------------------------
(***************************************************************************)
(* advanced-api-project: the Book and Author endpoints                     *)
(***************************************************************************)

\* Bounds: primary keys handed out to books and authors in one behaviour,
\* and the number of items of one bulk request.
MaxBookId == 2
MaxAuthorId == 3
MaxBulk == 2

\* Book.title = CharField(max_length=200), Author.name = CharField(max_length=100)
MaxTitleLength == 200
MaxNameLength == 100

\* datetime.now().year at the time of the requests.
CurrentYear == 2026

\* A primary key no row has.
NoSuchPk == 9999

\* Text is a sequence of characters.
TitleA == <<"A">>
TitleB == <<"B">>
TitleAPadded == <<" ", "A", " ">>
TitleBlank == <<>>
TitleSpaces == <<" ">>
TitleTooLong == [i \in 1..(MaxTitleLength + 1) |-> "x"]

\* str.strip(), which CharField applies (trim_whitespace) before validating.
RECURSIVE LStrip(_)
LStrip(s) == IF s = <<>> THEN s
             ELSE IF Head(s) = " " THEN LStrip(Tail(s)) ELSE s

RECURSIVE RStrip(_)
RStrip(s) == IF s = <<>> THEN s
             ELSE IF s[Len(s)] = " " THEN RStrip(SubSeq(s, 1, Len(s) - 1)) ELSE s

Strip(s) == RStrip(LStrip(s))

\* A publication_year as it arrives in the JSON body: an integer, or text
\* that is not an integer ('invalid_year').
IntYear(n) == [int |-> TRUE, v |-> n]
TextYear == [int |-> FALSE, v |-> 0]

\* The JSON object of a book: the keys it carries and their values.
BookData(fields, title, year, author) ==
    [fields |-> fields,
     title |-> IF "title" \in fields THEN title ELSE <<>>,
     publication_year |-> IF "publication_year" \in fields THEN year ELSE TextYear,
     author |-> IF "author" \in fields THEN author ELSE 0]

AllFields == {"title", "publication_year", "author"}

FullBook(title, year, author) == BookData(AllFields, title, year, author)

\* No instance: the serializer creates.
NoInstance == [id |-> 0, title |-> <<>>, publication_year |-> 0, author |-> 0]

AuthorIds(rows) == {a.id : a \in rows}
BookIds(rows) == {b.id : b \in rows}
BookByPk(rows, pk) == CHOOSE b \in rows : b.id = pk

\* BookSerializer.validate_publication_year: TRUE when the value is accepted.
validate_publication_year_strict(value, current_year) == value < current_year

validate_publication_year(value, current_year) == ~(value > current_year)

\* Book.Meta.unique_together = ['title', 'author']: TRUE when no other row
\* has this (title, author); the serializer's UniqueTogetherValidator and the
\* database constraint both come from it.
UniqueTogetherBook_none(rows, title, author, exclude_id) == TRUE

UniqueTogetherBook(rows, title, author, exclude_id) ==
    ~ \E b \in rows : b.id # exclude_id /\ b.title = title /\ b.author = author

\* Field validation of BookSerializer (to_internal_value): the fields that
\* get an error entry.
TitleError(data, partial) ==
    IF "title" \notin data.fields THEN ~partial
    ELSE \/ Strip(data.title) = <<>>
         \/ Len(Strip(data.title)) > MaxTitleLength

YearError(data, partial) ==
    IF "publication_year" \notin data.fields THEN ~partial
    ELSE \/ ~data.publication_year.int
         \/ ~validate_publication_year(data.publication_year.v, CurrentYear)

AuthorError_anyPk(data, partial, author_rows) ==
    IF "author" \notin data.fields THEN ~partial
    ELSE FALSE

AuthorError(data, partial, author_rows) ==
    IF "author" \notin data.fields THEN ~partial
    ELSE data.author \notin AuthorIds(author_rows)

FieldErrors(data, partial, author_rows) ==
    (IF TitleError(data, partial) THEN {"title"} ELSE {})
    \cup (IF YearError(data, partial) THEN {"publication_year"} ELSE {})
    \cup (IF AuthorError(data, partial, author_rows) THEN {"author"} ELSE {})

\* The validated attributes, with the instance's values for the fields a
\* partial update does not carry.
ValidatedBook(data, instance) ==
    [title |-> IF "title" \in data.fields THEN Strip(data.title) ELSE instance.title,
     publication_year |-> IF "publication_year" \in data.fields
                          THEN data.publication_year.v
                          ELSE instance.publication_year,
     author |-> IF "author" \in data.fields THEN data.author ELSE instance.author]

\* BookSerializer.is_valid(): field errors first; the unique-together
\* validator runs only on data whose fields are all valid.
BookSerializerErrors(data, instance, partial, book_rows, author_rows) ==
    LET fe == FieldErrors(data, partial, author_rows)
        v == ValidatedBook(data, instance)
    IN  IF fe # {} THEN fe
        ELSE IF ~UniqueTogetherBook(book_rows, v.title, v.author, instance.id)
             THEN {"non_field_errors"}
             ELSE {}

BookRow(id, v) ==
    [id |-> id, title |-> v.title, publication_year |-> v.publication_year,
     author |-> v.author]

ApiRequest(op, auth, pk, data) ==
    [op |-> op, auth |-> auth, pk |-> pk, data |-> data]

ApiResponse(status, errors, created, failed, count) ==
    [status |-> status, errors |-> errors, created |-> created,
     failed |-> failed, count |-> count]

\* permissions.IsAuthenticated / permissions.AllowAny: has_permission.
PermIsAuthenticated_open(auth) == TRUE

PermIsAuthenticated(auth) == auth

PermAllowAny(auth) == TRUE

\* permissions.IsAuthenticated refuses the anonymous request before the view
\* body runs; the tests pin the status to 403.
ApiDenied ==
    /\ apiResp' = ApiResponse(403, {"detail"}, <<>>, <<>>, 0)
    /\ UNCHANGED <<authors, books, nextAuthorId, nextBookId>>

ApiNotFound ==
    /\ apiResp' = ApiResponse(404, {"detail"}, <<>>, <<>>, 0)
    /\ UNCHANGED <<authors, books, nextAuthorId, nextBookId>>

ApiBadRequest(errors) ==
    /\ apiResp' = ApiResponse(400, errors, <<>>, <<>>, 0)
    /\ UNCHANGED <<authors, books, nextAuthorId, nextBookId>>

\* An IntegrityError out of save(): unhandled, 500.
ApiIntegrityError ==
    /\ apiResp' = ApiResponse(500, {"IntegrityError"}, <<>>, <<>>, 0)
    /\ UNCHANGED <<authors, books, nextAuthorId, nextBookId>>

\* BookListView (AllowAny).
BookListView(auth) ==
    /\ apiReq' = ApiRequest("book_list", auth, 0, <<>>)
    /\ IF ~PermAllowAny(auth) THEN ApiDenied
       ELSE /\ apiResp' = ApiResponse(200, {}, <<>>, <<>>, Cardinality(books))
            /\ UNCHANGED <<authors, books, nextAuthorId, nextBookId>>

\* BookDetailView (AllowAny).
BookDetailView(auth, pk) ==
    /\ apiReq' = ApiRequest("book_detail", auth, pk, <<>>)
    /\ IF ~PermAllowAny(auth) THEN ApiDenied
       ELSE IF pk \notin BookIds(books) THEN ApiNotFound
       ELSE /\ apiResp' = ApiResponse(200, {}, <<BookByPk(books, pk)>>, <<>>, 0)
            /\ UNCHANGED <<authors, books, nextAuthorId, nextBookId>>

\* BookCreateView.create (IsAuthenticated).
BookCreateView(auth, data) ==
    /\ apiReq' = ApiRequest("book_create", auth, 0, <<data>>)
    /\ IF ~PermIsAuthenticated(auth) THEN ApiDenied
       ELSE LET errors == BookSerializerErrors(data, NoInstance, FALSE, books, authors)
                v == ValidatedBook(data, NoInstance)
                row == BookRow(nextBookId, v)
            IN  IF errors # {} THEN ApiBadRequest(errors)
                ELSE IF ~UniqueTogetherBook(books, v.title, v.author, 0)
                     THEN ApiIntegrityError
                ELSE /\ nextBookId <= MaxBookId
                     /\ books' = books \cup {row}
                     /\ nextBookId' = nextBookId + 1
                     /\ apiResp' = ApiResponse(201, {}, <<row>>, <<>>, 0)
                     /\ UNCHANGED <<authors, nextAuthorId>>

\* BookUpdateView.update (IsAuthenticated): PUT, and PATCH with partial.
BookUpdateView(auth, pk, partial, data) ==
    /\ apiReq' = ApiRequest(IF partial THEN "book_partial_update" ELSE "book_update",
                            auth, pk, <<data>>)
    /\ IF ~PermIsAuthenticated(auth) THEN ApiDenied
       ELSE IF pk \notin BookIds(books) THEN ApiNotFound
       ELSE LET instance == BookByPk(books, pk)
                errors == BookSerializerErrors(data, instance, partial, books, authors)
                v == ValidatedBook(data, instance)
                row == BookRow(pk, v)
            IN  IF errors # {} THEN ApiBadRequest(errors)
                ELSE IF ~UniqueTogetherBook(books, v.title, v.author, pk)
                     THEN ApiIntegrityError
                ELSE /\ books' = (books \ {instance}) \cup {row}
                     /\ apiResp' = ApiResponse(200, {}, <<row>>, <<>>, 0)
                     /\ UNCHANGED <<authors, nextAuthorId, nextBookId>>

\* BookDeleteView.destroy (IsAuthenticated).
BookDeleteView(auth, pk) ==
    /\ apiReq' = ApiRequest("book_delete", auth, pk, <<>>)
    /\ IF ~PermIsAuthenticated(auth) THEN ApiDenied
       ELSE IF pk \notin BookIds(books) THEN ApiNotFound
       ELSE /\ books' = books \ {BookByPk(books, pk)}
            /\ apiResp' = ApiResponse(204, {}, <<>>, <<>>, 0)
            /\ UNCHANGED <<authors, nextAuthorId, nextBookId>>

\* (a loop that gives up at the first invalid item)
RECURSIVE BulkCreate_stopAtError(_, _, _, _, _, _)
BulkCreate_stopAtError(items, book_rows, author_rows, next_id, created, failed) ==
    IF items = <<>>
    THEN [books |-> book_rows, nextBookId |-> next_id,
          created |-> created, failed |-> failed]
    ELSE LET book_data == Head(items)
             errors == BookSerializerErrors(book_data, NoInstance, FALSE,
                                            book_rows, author_rows)
             row == BookRow(next_id, ValidatedBook(book_data, NoInstance))
         IN  IF errors = {}
             THEN BulkCreate_stopAtError(Tail(items), book_rows \cup {row}, author_rows,
                                         next_id + 1, Append(created, row), failed)
             ELSE [books |-> book_rows, nextBookId |-> next_id, created |-> created,
                   failed |-> Append(failed, [data |-> book_data, errors |-> errors])]

\* The loop of BookBulkOperationsView.post: each item is validated against
\* the table as the items before it left it, saved if valid, and reported in
\* 'created' or in 'errors'.
RECURSIVE BulkCreate(_, _, _, _, _, _)
BulkCreate(items, book_rows, author_rows, next_id, created, failed) ==
    IF items = <<>>
    THEN [books |-> book_rows, nextBookId |-> next_id,
          created |-> created, failed |-> failed]
    ELSE LET book_data == Head(items)
             errors == BookSerializerErrors(book_data, NoInstance, FALSE,
                                            book_rows, author_rows)
             row == BookRow(next_id, ValidatedBook(book_data, NoInstance))
         IN  IF errors = {}
             THEN BulkCreate(Tail(items), book_rows \cup {row}, author_rows,
                             next_id + 1, Append(created, row), failed)
             ELSE BulkCreate(Tail(items), book_rows, author_rows, next_id, created,
                             Append(failed, [data |-> book_data, errors |-> errors]))

\* BookBulkOperationsView.post (IsAuthenticated).
BookBulkOperationsView(auth, books_data) ==
    /\ apiReq' = ApiRequest("book_bulk", auth, 0, books_data)
    /\ IF ~PermIsAuthenticated(auth) THEN ApiDenied
       ELSE LET results == BulkCreate(books_data, books, authors, nextBookId,
                                      <<>>, <<>>)
            IN  /\ results.nextBookId <= MaxBookId + 1
                /\ books' = results.books
                /\ nextBookId' = results.nextBookId
                /\ apiResp' = ApiResponse(207, {}, results.created, results.failed, 0)
                /\ UNCHANGED <<authors, nextAuthorId>>

\* Author names.
NameN == <<"N">>
NameM == <<"M">>
NameBlank == <<>>

\* The JSON object of an author: 'name' or nothing.
AuthorData(fields, name) ==
    [fields |-> fields, name |-> IF "name" \in fields THEN name ELSE <<>>]

AuthorByPk(rows, pk) == CHOOSE a \in rows : a.id = pk

\* AuthorSerializer.is_valid(): 'name' is the only writable field.
AuthorSerializerErrors(data, partial) ==
    IF "name" \notin data.fields
    THEN (IF partial THEN {} ELSE {"name"})
    ELSE IF Strip(data.name) = <<>> \/ Len(Strip(data.name)) > MaxNameLength
         THEN {"name"} ELSE {}

\* AuthorListView.get_permissions: IsAuthenticated for POST, else AllowAny.
AuthorListPermits(method, auth) ==
    IF method = "POST" THEN PermIsAuthenticated(auth) ELSE PermAllowAny(auth)

\* AuthorDetailView.get_permissions: AllowAny for GET, else IsAuthenticated.
AuthorDetailPermits_deleteOpen(method, auth) ==
    IF method \in {"GET", "DELETE"} THEN PermAllowAny(auth) ELSE PermIsAuthenticated(auth)

AuthorDetailPermits(method, auth) ==
    IF method = "GET" THEN PermAllowAny(auth) ELSE PermIsAuthenticated(auth)

\* AuthorListView: GET lists, POST creates.
AuthorListView(auth, method, data) ==
    /\ apiReq' = ApiRequest(IF method = "POST" THEN "author_create" ELSE "author_list",
                            auth, 0, <<data>>)
    /\ IF ~AuthorListPermits(method, auth) THEN ApiDenied
       ELSE IF method = "GET"
       THEN /\ apiResp' = ApiResponse(200, {}, <<>>, <<>>, Cardinality(authors))
            /\ UNCHANGED <<authors, books, nextAuthorId, nextBookId>>
       ELSE LET errors == AuthorSerializerErrors(data, FALSE)
                row == [id |-> nextAuthorId, name |-> Strip(data.name)]
            IN  IF errors # {} THEN ApiBadRequest(errors)
                ELSE /\ nextAuthorId <= MaxAuthorId
                     /\ authors' = authors \cup {row}
                     /\ nextAuthorId' = nextAuthorId + 1
                     /\ apiResp' = ApiResponse(201, {}, <<row>>, <<>>, 0)
                     /\ UNCHANGED <<books, nextBookId>>

\* AuthorDetailView: GET, PUT, PATCH, DELETE; deleting an author deletes the
\* author's books (on_delete=CASCADE).
AuthorDetailView(auth, method, pk, data) ==
    /\ apiReq' = ApiRequest(CASE method = "GET" -> "author_detail"
                              [] method = "PUT" -> "author_update"
                              [] method = "PATCH" -> "author_partial_update"
                              [] OTHER -> "author_delete",
                            auth, pk, <<data>>)
    /\ IF ~AuthorDetailPermits(method, auth) THEN ApiDenied
       ELSE IF pk \notin AuthorIds(authors) THEN ApiNotFound
       ELSE LET instance == AuthorByPk(authors, pk)
                errors == AuthorSerializerErrors(data, method = "PATCH")
                row == [id |-> pk,
                        name |-> IF "name" \in data.fields THEN Strip(data.name)
                                 ELSE instance.name]
            IN  CASE method = "GET" ->
                       /\ apiResp' = ApiResponse(200, {}, <<instance>>, <<>>, 0)
                       /\ UNCHANGED <<authors, books, nextAuthorId, nextBookId>>
                  [] method = "DELETE" ->
                       /\ authors' = authors \ {instance}
                       /\ books' = {b \in books : b.author # pk}
                       /\ apiResp' = ApiResponse(204, {}, <<>>, <<>>, 0)
                       /\ UNCHANGED <<nextAuthorId, nextBookId>>
                  [] OTHER ->
                       IF errors # {} THEN ApiBadRequest(errors)
                       ELSE /\ authors' = (authors \ {instance}) \cup {row}
                            /\ apiResp' = ApiResponse(200, {}, <<row>>, <<>>, 0)
                            /\ UNCHANGED <<books, nextAuthorId, nextBookId>>

\* The api app after the fixture of BaseAPITestCase.setUp: authors, no book yet.
ApiInit ==
    /\ authors = {[id |-> 1, name |-> NameN], [id |-> 2, name |-> NameN]}
    /\ books = {}
    /\ nextAuthorId = 3
    /\ nextBookId = 1
    /\ apiReq = ApiRequest("none", FALSE, 0, <<>>)
    /\ apiResp = ApiResponse(0, {}, <<>>, <<>>, 0)

\* The request bodies.
ValidBooks ==
    {FullBook(TitleA, IntYear(CurrentYear), 1),
     FullBook(TitleB, IntYear(CurrentYear), 1),
     FullBook(TitleA, IntYear(CurrentYear), 2),
     FullBook(TitleB, IntYear(CurrentYear - 1), 2),
     FullBook(TitleAPadded, IntYear(CurrentYear), 1)}

InvalidBooks ==
    {FullBook(TitleSpaces, IntYear(CurrentYear), 1),
     FullBook(TitleTooLong, IntYear(CurrentYear), 1),
     FullBook(TitleA, TextYear, 1),
     FullBook(TitleA, IntYear(CurrentYear + 1), 1),
     FullBook(TitleA, IntYear(CurrentYear), NoSuchPk),
     FullBook(TitleBlank, TextYear, NoSuchPk)}

PartialBooks ==
    {BookData({"title"}, TitleB, TextYear, 0),
     BookData({"author"}, <<>>, TextYear, 2),
     BookData({"publication_year"}, <<>>, IntYear(CurrentYear + 1), 0)}

BookPayloads == ValidBooks \cup InvalidBooks \cup PartialBooks

\* What an anonymous client sends: the permission check never reads it.
AnonymousBook == FullBook(TitleA, IntYear(CurrentYear), 1)

PayloadsOf(auth) == IF auth THEN BookPayloads ELSE {AnonymousBook}

\* The bodies of PUT and PATCH requests.  A request that is refused or finds
\* no book is answered before its body is read; PUT takes the full bodies and
\* one with fields missing, PATCH the partial bodies and one full body.
UpdatePayloads(auth, found, partial) ==
    IF ~auth \/ ~found THEN {AnonymousBook}
    ELSE IF partial THEN PartialBooks \cup {FullBook(TitleA, IntYear(CurrentYear), 1)}
    ELSE ValidBooks \cup InvalidBooks \cup {BookData({"title"}, TitleB, TextYear, 0)}

\* The items of bulk requests, as in test_bulk_create_books_authenticated: two
\* valid books and one with an empty title and a future year.
BulkItems ==
    {FullBook(TitleA, IntYear(CurrentYear), 1),
     FullBook(TitleA, IntYear(CurrentYear), 2),
     FullBook(TitleBlank, IntYear(CurrentYear + 1), 1)}

BulkPayloads == UNION {[1..n -> BulkItems] : n \in 0..MaxBulk}

PksOf(rows) == {r.id : r \in rows} \cup {NoSuchPk}

DoBookList == \E auth \in BOOLEAN : BookListView(auth)
DoBookDetail == \E auth \in BOOLEAN, pk \in PksOf(books) : BookDetailView(auth, pk)
DoBookCreate == \E auth \in BOOLEAN : \E data \in PayloadsOf(auth) : BookCreateView(auth, data)
DoBookUpdate ==
    \E auth \in BOOLEAN, pk \in PksOf(books), partial \in BOOLEAN :
        \E data \in UpdatePayloads(auth, pk \in BookIds(books), partial) :
            BookUpdateView(auth, pk, partial, data)
DoBookDelete == \E auth \in BOOLEAN, pk \in PksOf(books) : BookDeleteView(auth, pk)
DoBookBulk ==
    \E auth \in BOOLEAN :
        \E books_data \in (IF auth THEN BulkPayloads ELSE {<<AnonymousBook>>}) :
            BookBulkOperationsView(auth, books_data)

----------------------------------------------------------------------------
(***************************************************************************)
(* api_project: BookList and BookViewSet                                   *)
(***************************************************************************)

\* Bound on the primary keys of Book handed out in one behaviour.
MaxApBookId == 2

\* The clients: no credentials, the regular user and the staff user of the
\* create_users command.
ApAnonymous == "anonymous"
ApUsers == {"user", "admin"}
ApClients == ApUsers \cup {ApAnonymous}

is_staff(user) == user = "admin"

\* rest_framework.permissions: has_permission of the three classes used.
HasPermission(permission, user) ==
    IF permission = "AllowAny" THEN TRUE
    ELSE IF permission = "IsAuthenticated" THEN user \in ApUsers
    ELSE user \in ApUsers /\ is_staff(user)

\* BookViewSet.get_permissions.
get_permissions_authenticatedWrites(action) == "IsAuthenticated"

get_permissions(action) ==
    IF action \in {"list", "retrieve"} THEN "IsAuthenticated" ELSE "IsAdminUser"

\* The body of a create or update request.  Book has a title and an author,
\* both text; a partial update may leave fields out.
ApBookData(fields, title, author) == [fields |-> fields, title |-> title, author |-> author]

\* BookSerializer.is_valid: the required fields are there and not blank.
ApBookErrors(data, partial) ==
    {f \in {"title", "author"} :
        IF f \in data.fields THEN data[f] = "" ELSE ~partial}

ApResponse(action, user, pk, status, count) ==
    [action |-> action, user |-> user, pk |-> pk, status |-> status, count |-> count]

ApBookIds == {b.id : b \in apBooks}

ApBookByPk(pk) == CHOOSE b \in apBooks : b.id = pk

\* APIView.permission_denied: NotAuthenticated for a request without
\* credentials (401, or 403 when the first authentication class has no
\* WWW-Authenticate header), PermissionDenied (403) for an authenticated one.
ApDenied(action, user, pk) ==
    /\ \E status \in (IF user \in ApUsers THEN {403} ELSE {401, 403}) :
          apResp' = ApResponse(action, user, pk, status, 0)
    /\ UNCHANGED <<apBooks, apNextBookId>>

\* BookList (ListAPIView, AllowAny) at /books/.
BookList(user) ==
    IF ~HasPermission("AllowAny", user) THEN ApDenied("book_list", user, 0)
    ELSE /\ apResp' = ApResponse("book_list", user, 0, 200, Cardinality(apBooks))
         /\ UNCHANGED <<apBooks, apNextBookId>>

\* BookViewSet (ModelViewSet): check_permissions with get_permissions() runs
\* before the action; get_object and the serializer after it.
BookViewSet(user, action, pk, data) ==
    IF ~HasPermission(get_permissions(action), user) THEN ApDenied(action, user, pk)
    ELSE IF action = "list" THEN
        /\ apResp' = ApResponse(action, user, 0, 200, Cardinality(apBooks))
        /\ UNCHANGED <<apBooks, apNextBookId>>
    ELSE IF action = "create" THEN
        IF ApBookErrors(data, FALSE) # {}
        THEN /\ apResp' = ApResponse(action, user, 0, 400, 0)
             /\ UNCHANGED <<apBooks, apNextBookId>>
        ELSE /\ apNextBookId <= MaxApBookId
             /\ apBooks' = apBooks \cup {[id |-> apNextBookId, title |-> data.title,
                                          author |-> data.author]}
             /\ apNextBookId' = apNextBookId + 1
             /\ apResp' = ApResponse(action, user, apNextBookId, 201, 0)
    ELSE IF pk \notin ApBookIds THEN
        /\ apResp' = ApResponse(action, user, pk, 404, 0)
        /\ UNCHANGED <<apBooks, apNextBookId>>
    ELSE IF action = "retrieve" THEN
        /\ apResp' = ApResponse(action, user, pk, 200, 0)
        /\ UNCHANGED <<apBooks, apNextBookId>>
    ELSE IF action = "destroy" THEN
        /\ apBooks' = apBooks \ {ApBookByPk(pk)}
        /\ apResp' = ApResponse(action, user, pk, 204, 0)
        /\ UNCHANGED apNextBookId
    ELSE \* update, partial_update
        IF ApBookErrors(data, action = "partial_update") # {}
        THEN /\ apResp' = ApResponse(action, user, pk, 400, 0)
             /\ UNCHANGED <<apBooks, apNextBookId>>
        ELSE /\ apBooks' = (apBooks \ {ApBookByPk(pk)}) \cup
                    {[id |-> pk,
                      title |-> IF "title" \in data.fields THEN data.title
                                ELSE ApBookByPk(pk).title,
                      author |-> IF "author" \in data.fields THEN data.author
                                 ELSE ApBookByPk(pk).author]}
             /\ apResp' = ApResponse(action, user, pk, 200, 0)
             /\ UNCHANGED apNextBookId

ApInit ==
    /\ apBooks = {}
    /\ apNextBookId = 1
    /\ apResp = ApResponse("none", ApAnonymous, 0, 0, 0)

ApNoData == ApBookData({}, "", "")

ApBookPayloads ==
    {ApBookData({"title", "author"}, "Authentication Test Book", "Test Author"),
     ApBookData({"title", "author"}, "", "Test Author"),
     ApBookData({"title"}, "The Hobbit: Original Title", "")}

ApPks == ApBookIds \cup {NoSuchPk}

DoBookListPublic == \E user \in ApClients : BookList(user)
DoViewSetList == \E user \in ApClients : BookViewSet(user, "list", 0, ApNoData)
DoViewSetRetrieve == \E user \in ApClients, pk \in ApPks : BookViewSet(user, "retrieve", pk, ApNoData)
DoViewSetCreate ==
    \E user \in ApClients, data \in ApBookPayloads : BookViewSet(user, "create", 0, data)
DoViewSetUpdate ==
    \E user \in ApClients, pk \in ApPks, data \in ApBookPayloads,
       action \in {"update", "partial_update"} : BookViewSet(user, action, pk, data)
DoViewSetDestroy == \E user \in ApClients, pk \in ApPks : BookViewSet(user, "destroy", pk, ApNoData)

ApProjectNext ==
    /\ \/ DoBookListPublic
       \/ DoViewSetList
       \/ DoViewSetRetrieve
       \/ DoViewSetCreate
       \/ DoViewSetUpdate
       \/ DoViewSetDestroy
    /\ UNCHANGED <<smVars, snVars, apiVars, pfVars, rqVars>>

\* The projects are separate deployments with separate databases.  The
\* specification of the profile projects starts in any of the three; the
\* others never touch the profile tables and start them for one project.
Init == SmInit /\ SnInit /\ ApiInit /\ ApInit /\ PfInit({"django-models"}) /\ RqInit

ProfilesInit == SmInit /\ SnInit /\ ApiInit /\ ApInit /\ PfInit(Projects) /\ RqInit

SpecLikes == Init /\ [][LikesNext]_vars

SpecProfiles == ProfilesInit /\ [][ProfilesNext]_vars

SpecNotifications == Init /\ [][NotificationsNext]_vars

SpecApiProject == Init /\ [][ApProjectNext]_vars

SpecFeed == Init /\ [][FeedNext]_vars

RolesInit ==
    /\ SmInit /\ SnInit /\ ApiInit /\ ApInit
    /\ PfInit({"django-models", "advanced_features_and_security"})
    /\ RqInit

SpecRoles == RolesInit /\ [][RolesNext]_vars

SpecConcurrent == Init /\ [][ConcurrentNext]_vars

BooksNext ==
    /\ \/ DoBookList
       \/ DoBookDetail
       \/ DoBookCreate
       \/ DoBookUpdate
       \/ DoBookDelete
       \/ DoBookBulk
    /\ UNCHANGED <<smVars, snVars, apVars, pfVars, rqVars>>

SpecBooks == Init /\ [][BooksNext]_vars

\* The endpoints of books and authors together, with few request bodies:
\* what a client may do with and without authentication.
ApiBooks == {FullBook(TitleA, IntYear(CurrentYear), 1)}

ApiAuthors ==
    {AuthorData({"name"}, NameM), AuthorData({"name"}, NameBlank)}

ApiBookList == \E auth \in BOOLEAN : BookListView(auth)
ApiBookDetail == \E auth \in BOOLEAN, pk \in PksOf(books) : BookDetailView(auth, pk)
ApiBookCreate == \E auth \in BOOLEAN, data \in ApiBooks : BookCreateView(auth, data)
ApiBookUpdate ==
    \E auth \in BOOLEAN, pk \in PksOf(books), partial \in BOOLEAN, data \in ApiBooks :
        BookUpdateView(auth, pk, partial, data)
ApiBookDelete == \E auth \in BOOLEAN, pk \in PksOf(books) : BookDeleteView(auth, pk)
ApiBookBulk ==
    \E auth \in BOOLEAN, data \in ApiBooks : BookBulkOperationsView(auth, <<data>>)
ApiAuthorList ==
    \E auth \in BOOLEAN, method \in {"GET", "POST"}, data \in ApiAuthors :
        AuthorListView(auth, method, IF method = "GET" THEN AuthorData({}, <<>>) ELSE data)
ApiAuthorDetail ==
    \E auth \in BOOLEAN, method \in {"GET", "PUT", "PATCH", "DELETE"},
       pk \in PksOf(authors), data \in ApiAuthors :
        AuthorDetailView(auth, method, pk,
                         IF method \in {"GET", "DELETE"} THEN AuthorData({}, <<>>) ELSE data)

ApiNext ==
    /\ \/ ApiBookList
       \/ ApiBookDetail
       \/ ApiBookCreate
       \/ ApiBookUpdate
       \/ ApiBookDelete
       \/ ApiBookBulk
       \/ ApiAuthorList
       \/ ApiAuthorDetail
    /\ UNCHANGED <<smVars, snVars, apVars, pfVars, rqVars>>

SpecApi == Init /\ [][ApiNext]_vars

----------------------------------------------------------------------------
(***************************************************************************)
(* Claims about notifications (SpecNotifications)                          *)
(***************************************************************************)

\* C11: after a mark-all-read request by user U no notification addressed to
\* U is unread, the returned 'marked_read' is the number of U's notifications
\* that were unread before the request, and the notifications addressed to
\* other users are unchanged, read flag included.
C11_MarkAllReadOwnOnly ==
    [][(snResp'.op = "mark_all_read" /\ snResp'.status = 200) =>
         LET U == snResp'.user
         IN  /\ \A n \in notifications' : n.recipient = U => n.read
             /\ snResp'.count =
                  Cardinality({n \in notifications : n.recipient = U /\ ~n.read})
             /\ {n \in notifications' : n.recipient # U}
                  = {n \in notifications : n.recipient # U}
             /\ {n.id : n \in notifications'} = {n.id : n \in notifications}]_vars

\* A mark-all-read has just marked a notification while an unread
\* notification addressed to the other user is in the table.
C11_Witness ==
    /\ snResp.op = "mark_all_read" /\ snResp.status = 200
    /\ snResp.count >= 1
    /\ \E n \in notifications : n.recipient # snResp.user /\ ~n.read

\* C12: after a delete-all request by user U no notification addressed to U
\* exists, the returned 'deleted_count' is the number of U's notifications
\* that existed before the request, and every notification addressed to
\* another user still exists unchanged.
C12_DeleteAllOwnOnly ==
    [][(snResp'.op = "delete_all" /\ snResp'.status = 200) =>
         LET U == snResp'.user
         IN  /\ ~ \E n \in notifications' : n.recipient = U
             /\ snResp'.count = Cardinality({n \in notifications : n.recipient = U})
             /\ \A n \in notifications : n.recipient # U => n \in notifications'
             /\ notifications' \subseteq notifications]_vars

\* A delete-all has just deleted a notification and a notification addressed
\* to the other user is still in the table.
C12_Witness ==
    /\ snResp.op = "delete_all" /\ snResp.status = 200
    /\ snResp.count >= 1
    /\ \E n \in notifications : n.recipient # snResp.user

----------------------------------------------------------------------------
(***************************************************************************)
(* Claims about the feed and about follows (SpecFeed)                      *)
(***************************************************************************)

\* C15: the feed requested by an authenticated user without date filters is
\* answered with exactly the posts written by the requester or by a user the
\* requester follows at that moment, newest first; a post of a user who is
\* not followed (any more) is not in it.
C15_FeedOwnAndFollowed ==
    [][(/\ snResp'.op \in {"feed", "posts_feed"}
        /\ snResp'.user \in Users
        /\ snResp'.target = 0) =>
          LET U == snResp'.user
              ids == snResp'.ids
          IN  /\ snResp'.status = 200
              /\ {ids[i] : i \in DOMAIN ids}
                   = {p \in DOMAIN posts : posts[p] = U \/ <<U, posts[p]>> \in following}
              /\ \A i, j \in DOMAIN ids :
                    i < j => postCreatedAt[ids[i]] >= postCreatedAt[ids[j]]]_vars

\* The follow notifications an actor has sent to a recipient.
FollowNotifications(rows, recipient, actor) ==
    {n \in rows : /\ n.notification_type = "follow"
                  /\ n.recipient = recipient
                  /\ n.actor = actor}

\* C18: a successful follow adds exactly one notification, of type 'follow',
\* addressed to the followed user with the follower as actor, and leaves the
\* others as they were; an unfollow, successful or not, leaves every
\* notification as it was, so that following, unfollowing and following again
\* leaves two follow notifications.
C18_FollowNotification ==
    [][/\ (snResp'.op = "follow" /\ snResp'.status = 200) =>
            /\ notifications \subseteq notifications'
            /\ Cardinality(notifications' \ notifications) = 1
            /\ \A n \in notifications' \ notifications :
                  /\ n.notification_type = "follow"
                  /\ n.recipient = UserById(snResp'.target)
                  /\ n.actor = snResp'.user
                  /\ ~n.read
            /\ <<snResp'.user, UserById(snResp'.target)>> \in following' \ following
       /\ (snResp'.op = "follow" /\ snResp'.status # 200) =>
            notifications' = notifications
       /\ snResp'.op = "unfollow" => notifications' = notifications]_vars

\* A second follow of the same user has just succeeded after an unfollow: the
\* followed user holds two follow notifications from the follower.
C18_Witness ==
    /\ snResp.op = "follow" /\ snResp.status = 200
    /\ <<snResp.user, UserById(snResp.target)>> \in following
    /\ Cardinality(FollowNotifications(notifications, UserById(snResp.target),
                                       snResp.user)) = 2

----------------------------------------------------------------------------
(***************************************************************************)
(* Claims about the role-protected views (SpecRoles)                       *)
(***************************************************************************)

\* The user has a profile row with this role.
HasRole(rows, user, role) == \E p \in rows : p.user = user /\ p.role = role

DashboardOf(role) ==
    CASE role = "admin" -> "admin_dashboard"
      [] role = "librarian" -> "librarian_dashboard"
      [] role = "member" -> "member_dashboard"

\* The request went past the decorators of the view.
Admitted(resp) == resp.outcome \in {"render", "error"}

\* C16: in advanced_features_and_security, dashboard_view redirects a
\* logged-in user whose profile role is admin, librarian or member to the
\* dashboard of that role, and each role dashboard, manage_roles and
\* user_management admit the users of their role and nobody else.
C16_RoleDashboards ==
    [][(pfProject = "advanced_features_and_security" /\ pfResp'.user \in pfUsers) =>
          /\ pfResp'.view = "dashboard" =>
                \A r \in Roles :
                    HasRole(pfProfiles, pfResp'.user, r) =>
                        /\ pfResp'.outcome = "redirect"
                        /\ pfResp'.location = DashboardOf(r)
          /\ pfResp'.view \in AdvViews =>
                (Admitted(pfResp') <=>
                    HasRole(pfProfiles, pfResp'.user, AdvViewRole(pfResp'.view)))]_vars

\* C17: in django-models a view wrapped by role_required(R) runs only for a
\* logged-in user whose profile role is R; a request without a login is
\* redirected to the login page, and any other logged-in user gets 403; for
\* both the view's effects, such as the role change of manage_roles, do not
\* happen.
C17_RoleRequired ==
    [][(pfProject = "django-models" /\ pfResp'.view \in DjViews) =>
          LET U == pfResp'.user
              R == DjViewRole(pfResp'.view)
          IN  /\ Admitted(pfResp') <=> (U \in pfUsers /\ HasRole(pfProfiles, U, R))
              /\ U = AnonymousUser =>
                    /\ pfResp'.outcome = "redirect" /\ pfResp'.location = "login"
                    /\ pfProfiles' = pfProfiles
              /\ (U \in pfUsers /\ ~HasRole(pfProfiles, U, R)) =>
                    /\ pfResp'.outcome = "forbidden"
                    /\ pfProfiles' = pfProfiles]_vars

\* manage_roles has just refused a logged-in librarian with 403 while the
\* database holds an admin whose role the request could have changed.
C17_Witness ==
    /\ pfProject = "django-models"
    /\ pfResp.view = "manage_roles" /\ pfResp.outcome = "forbidden"
    /\ HasRole(pfProfiles, pfResp.user, "librarian")
    /\ \E p \in pfProfiles : p.role = "admin"

----------------------------------------------------------------------------
(***************************************************************************)
(* Claims about requests served at the same time (SpecConcurrent)          *)
(***************************************************************************)

\* Two answered requests of the same view, user and target.
SameRequestTwice(view, r1, r2) ==
    /\ r1 # r2
    /\ requests[r1].pc = "done" /\ requests[r2].pc = "done"
    /\ requests[r1].view = view /\ requests[r2].view = view
    /\ requests[r1].user = requests[r2].user
    /\ requests[r1].target = requests[r2].target

\* C19: of two follow requests by the same user A for the same user B, whom
\* A did not follow before, at most one is answered with 200, the other with
\* 400, and one follow notification from A to B exists afterwards.
C19_ConcurrentFollowOnce ==
    \A r1, r2 \in Slots :
        (/\ SameRequestTwice("follow", r1, r2)
         /\ requests[r1].target \in UserIds \ {UserId(requests[r1].user)}) =>
            /\ ~(requests[r1].status = 200 /\ requests[r2].status = 200)
            /\ requests[r1].status \in {200, 400}
            /\ requests[r2].status \in {200, 400}
            /\ Cardinality({n \in notifications :
                               /\ n.notification_type = "follow"
                               /\ n.recipient = UserById(requests[r1].target)
                               /\ n.actor = requests[r1].user}) = 1

\* C20: of two like requests by the same user for the same existing post,
\* each is answered with 201 or 400, one Like row of that user and post
\* exists afterwards, and at most one like notification was created.
C20_ConcurrentLikeOnce ==
    \A r1, r2 \in Slots :
        (/\ SameRequestTwice("like_post", r1, r2)
         /\ requests[r1].target \in DOMAIN posts) =>
            /\ requests[r1].status \in {201, 400}
            /\ requests[r2].status \in {201, 400}
            /\ Cardinality(LikeFilter(likes, requests[r1].user, "post",
                                      requests[r1].target)) = 1
            /\ Cardinality({n \in notifications :
                               /\ n.notification_type = "like"
                               /\ n.actor = requests[r1].user
                               /\ n.target_object_id = requests[r1].target}) <= 1

----------------------------------------------------------------------------
(***************************************************************************)
(* Claim about api_project (SpecApiProject)                                *)
(***************************************************************************)

ApWrites == {"create", "update", "partial_update", "destroy"}
ApActions == {"list", "retrieve"} \cup ApWrites

----------------------------------------------------------------------------
(***************************************************************************)
(* Claim about profiles (SpecProfiles)                                     *)
(***************************************************************************)

\* C6: in each of the three projects, after any sequence of user creations
\* and user saves every user has exactly one profile: creating a user creates
\* its profile (with role 'member' where profiles have a role) and saving an
\* existing user never creates a second profile.
C6_OneProfilePerUser ==
    [][/\ \A u \in pfUsers' : Cardinality({p \in pfProfiles' : p.user = u}) = 1
       /\ \A p \in pfProfiles' : p.user \in pfUsers'
       /\ pfOut'.op = "create_user" =>
            \A p \in pfProfiles' :
                p.user = pfOut'.user => (HasRoles(pfProject) => p.role = "member")
       /\ pfOut'.op = "save_user" =>
            Cardinality(pfProfiles') = Cardinality(pfProfiles)]_vars

\* In django_blog the save of an existing user has just fallen back to
\* Profile.objects.create and the database has refused the second profile.
C6_Witness ==
    /\ pfProject = "django_blog"
    /\ pfOut.op = "save_user"
    /\ pfOut.exc = "IntegrityError"
    /\ Cardinality(pfUsers) = 2
    /\ Cardinality(pfProfiles) = 2

----------------------------------------------------------------------------
(***************************************************************************)
(* Claims about books and authors (SpecBooks, SpecApi)                     *)
(***************************************************************************)

\* C5: after any sequence of book create, update, partial-update and
\* bulk-create requests no two stored Book rows have the same (title, author).
C5_UniqueTitleAuthor ==
    \A b1 \in books : \A b2 \in books :
        (b1.title = b2.title /\ b1.author = b2.author) => b1 = b2

\* A partial update that would have given a second book the (title, author)
\* of a stored one has just been refused.
C5_Witness ==
    /\ apiReq.op = "book_partial_update"
    /\ apiResp.status = 400
    /\ "non_field_errors" \in apiResp.errors
    /\ Cardinality(books) >= 2

\* A request item whose fields the serializer accepts, and its row in a table.
ItemIsWellFormed(d) ==
    /\ d.fields = AllFields
    /\ Strip(d.title) # <<>> /\ Len(Strip(d.title)) <= MaxTitleLength
    /\ d.publication_year.int /\ d.publication_year.v <= CurrentYear
    /\ d.author \in AuthorIds(authors)

ItemIsStored(d, rows) ==
    \E b \in rows : /\ b.title = Strip(d.title)
                    /\ b.author = d.author

ItemIsCreated(d, rows) ==
    \E b \in rows : /\ b.title = Strip(d.title)
                    /\ b.publication_year = d.publication_year.v
                    /\ b.author = d.author

SeqToSet(q) == {q[i] : i \in DOMAIN q}

\* C7: a bulk-create request (of an authenticated client) with N items returns
\* 207, reports every item in 'created' or in 'errors' with
\* len(created) + len(errors) = N, persists every item that validates even
\* when other items fail, and grows the table by exactly len(created) rows.
C7_BulkCreatePartialSuccess ==
    [][(apiReq'.op = "book_bulk" /\ apiReq'.auth) =>
         LET items == apiReq'.data
             created == apiResp'.created
             failed == apiResp'.failed
         IN  /\ apiResp'.status = 207
             /\ Len(created) + Len(failed) = Len(items)
             /\ \A i \in DOMAIN items :
                   \/ ItemIsCreated(items[i], SeqToSet(created))
                   \/ \E j \in DOMAIN failed : failed[j].data = items[i]
             /\ \A j \in DOMAIN failed : failed[j].errors # {}
             /\ \A i \in DOMAIN items :
                   ItemIsWellFormed(items[i]) => ItemIsStored(items[i], books')
             /\ \A i \in DOMAIN items :
                   (ItemIsWellFormed(items[i]) /\ ~ItemIsStored(items[i], books))
                      => ItemIsCreated(items[i], SeqToSet(created))
             /\ books' = books \cup SeqToSet(created)
             /\ SeqToSet(created) \cap books = {}
             /\ Cardinality(books') = Cardinality(books) + Len(created)]_vars

\* A bulk request whose first item failed and whose second item was created.
C7_Witness ==
    /\ apiReq.op = "book_bulk" /\ apiReq.auth
    /\ Len(apiReq.data) = 2
    /\ Len(apiResp.created) = 1
    /\ Len(apiResp.failed) = 1
    /\ apiResp.failed[1].data = apiReq.data[1]
    /\ apiResp.created[1] \in books

WriteOps ==
    {"book_create", "book_update", "book_partial_update", "book_delete", "book_bulk",
     "author_create", "author_update", "author_partial_update", "author_delete"}

\* C8: a request without authentication that tries to create, update or
\* delete a Book or an Author gets 403 and changes neither table; list and
\* retrieve requests for books and authors get 200 without authentication.
C8_AnonymousReadOnly ==
    [][~apiReq'.auth =>
         /\ apiReq'.op \in WriteOps =>
              /\ apiResp'.status = 403
              /\ books' = books
              /\ authors' = authors
         /\ apiReq'.op \in {"book_list", "author_list"} => apiResp'.status = 200
         /\ (apiReq'.op = "book_detail" /\ apiReq'.pk \in BookIds(books))
              => apiResp'.status = 200
         /\ (apiReq'.op = "author_detail" /\ apiReq'.pk \in AuthorIds(authors))
              => apiResp'.status = 200]_vars

\* An anonymous DELETE of an author who has a book has just been refused.
C8_Witness ==
    /\ apiReq.op = "author_delete" /\ ~apiReq.auth
    /\ apiResp.status = 403
    /\ apiReq.pk \in AuthorIds(authors)
    /\ \E b \in books : b.author = apiReq.pk

EmptyTitle(d) == "title" \in d.fields /\ Strip(d.title) = <<>>
NonIntegerYear(d) == "publication_year" \in d.fields /\ ~d.publication_year.int
NonexistentAuthor(d) == "author" \in d.fields /\ d.author \notin AuthorIds(authors)

\* C9: retrieving a Book whose primary key does not exist returns 404, and so
\* does updating one (by an authenticated client); creating a Book (by an
\* authenticated client) with an empty title, a non-integer publication year
\* or a nonexistent author returns 400 with an error entry for each such
\* field and stores no book.
C9_NotFoundAndBadRequest ==
    [][/\ (apiReq'.op = "book_detail" /\ apiReq'.pk \notin BookIds(books))
            => apiResp'.status = 404
       /\ (/\ apiReq'.op \in {"book_update", "book_partial_update"}
           /\ apiReq'.auth
           /\ apiReq'.pk \notin BookIds(books))
            => (apiResp'.status = 404 /\ books' = books)
       /\ (apiReq'.op = "book_create" /\ apiReq'.auth) =>
            LET d == apiReq'.data[1]
            IN  (EmptyTitle(d) \/ NonIntegerYear(d) \/ NonexistentAuthor(d)) =>
                  /\ apiResp'.status = 400
                  /\ EmptyTitle(d) => "title" \in apiResp'.errors
                  /\ NonIntegerYear(d) => "publication_year" \in apiResp'.errors
                  /\ NonexistentAuthor(d) => "author" \in apiResp'.errors
                  /\ books' = books]_vars

\* The request of test_invalid_book_data_creation has just been refused with
\* the three error entries, with books in the table.
C9_Witness ==
    /\ apiReq.op = "book_create" /\ apiReq.auth
    /\ apiReq.data[1] = FullBook(TitleBlank, TextYear, NoSuchPk)
    /\ apiResp.status = 400
    /\ apiResp.errors = {"title", "publication_year", "author"}
    /\ books # {}

SerializerOps == {"book_create", "book_update", "book_partial_update"}

\* C10: BookSerializer accepts an integer publication_year if and only if it
\* is not greater than the current year: a year above it gets an error on
\* 'publication_year' (the create or update request returns 400 and the table
\* is unchanged); the current year and earlier years get no such error.
C10_YearNotInFuture ==
    [][(/\ apiReq'.op \in SerializerOps
        /\ apiReq'.auth
        /\ apiReq'.op # "book_create" => apiReq'.pk \in BookIds(books)
        /\ "publication_year" \in apiReq'.data[1].fields
        /\ apiReq'.data[1].publication_year.int) =>
         LET year == apiReq'.data[1].publication_year.v
         IN  IF year > CurrentYear
             THEN /\ apiResp'.status = 400
                  /\ "publication_year" \in apiResp'.errors
                  /\ books' = books
             ELSE "publication_year" \notin apiResp'.errors]_vars

\* A book of next year has just been refused while books of this year and of
\* last year are stored.
C10_Witness ==
    /\ apiReq.op = "book_create" /\ apiReq.auth
    /\ apiReq.data[1].publication_year = IntYear(CurrentYear + 1)
    /\ apiResp.status = 400
    /\ "publication_year" \in apiResp.errors
    /\ \E b \in books : b.publication_year = CurrentYear
    /\ \E b \in books : b.publication_year = CurrentYear - 1

----------------------------------------------------------------------------
(***************************************************************************)
(* Claims about likes (SpecLikes)                                          *)
(***************************************************************************)

PostLikesOf(rows, user, post_id) ==
    {l \in rows : l.user = user /\ l.content_type = "post" /\ l.object_id = post_id}

\* C1: after any sequence of like and unlike requests there is at most one
\* Like row for each (user, content type, object id).
C1_UniqueLike ==
    \A l1 \in likes : \A l2 \in likes :
        (l1.user = l2.user /\ l1.content_type = l2.content_type
           /\ l1.object_id = l2.object_id) => l1 = l2

\* A second like of an object the user already likes has just been refused
\* while likes of a post and of a comment are stored.
C1_Witness ==
    /\ smResp.status = 400
    /\ \E l \in likes : l.content_type = "post"
    /\ \E l \in likes : l.content_type = "comment"
    /\ nextLikeId > Cardinality(likes) + 1

C4_UnlikeRemovesOwnLikeOnly ==
    [][\A u \in Users : \A p \in PostIds :
         (/\ smResp'.op = "unlike_post" /\ smResp'.user = u /\ smResp'.target = p
          /\ smResp'.status = 200)
         => (/\ PostLikesOf(likes', u, p) = {}
             /\ smResp'.like_count =
                  Cardinality({l \in likes' : l.content_type = "post" /\ l.object_id = p})
             /\ {l \in likes' : ~(l.user = u /\ l.content_type = "post" /\ l.object_id = p)}
                  = {l \in likes : ~(l.user = u /\ l.content_type = "post" /\ l.object_id = p)})]_vars

\* An unlike has removed the requester's like from a post that another user
\* still likes.
C4_Witness ==
    /\ smResp.op = "unlike_post" /\ smResp.status = 200
    /\ smResp.like_count = 1
    /\ nextLikeId > Cardinality(likes) + 1
    /\ \E l \in likes : l.content_type = "post" /\ l.object_id = smResp.target
                          /\ l.user # smResp.user

====
